---- MODULE Spec2Model ----
(***************************************************************************)
(* Job-matching backend (vector-ai-poc): the Candidate Store, the Catalog  *)
(* Store and the Match Orchestrator, modelled from                         *)
(*   src/src/services/candidate_service.py                                 *)
(*   src/src/services/job_service.py                                       *)
(*   src/src/services/matching_service.py                                  *)
(*   src/src/api/routes.py (persist_preference_changes)                    *)
(*                                                                         *)
(* Text is a sequence of one-character strings, so that lower-casing and   *)
(* substring tests are computed and not assumed.  Money is in thousands of *)
(* dollars.  A score is kept in halves (score2 = 2 x score) and a          *)
(* match_score in hundredths, so that all arithmetic stays integral.       *)
(***************************************************************************)
EXTENDS Integers, Sequences, FiniteSets, TLC

VARIABLES
    candidates,   \* CandidateService._candidates_cache : id -> Candidate
    persisted,    \* the candidates JSON file           : id -> Candidate
    jobs,         \* JobService._jobs_cache, in insertion order
    endpoint,     \* vector_service and vector_service.endpoint are truthy
    result,       \* the last call: its operation, arguments and outcome
    queue,        \* AsyncEmbeddingService._queue: the tasks waiting
    state,        \* tool_context.state: the session state of the agent tools
    tcache,       \* CacheService: _cache, _lock, _hits, _misses
    now,          \* time.time(), in ticks
    th,           \* the threads calling a service: position and locals
    emb,          \* AsyncEmbeddingService: flag, tables, caller and workers
    nmut          \* number of store-mutating calls made so far

\* the state of the components that run beside the request handlers
overlay == <<tcache, now, th, emb>>

\* the state of the stores, the orchestrator and the agent tools
handlers ==
    <<candidates, persisted, jobs, endpoint, result, queue, state, nmut>>

vars == <<handlers, overlay>>

----------------------------------------------------------------------------
(* Bounds of the model *)

MaxMut == 2          \* store-mutating calls per behaviour
MaxResults == 2      \* largest num_results passed to a search
MaxNeighbours == 2   \* longest neighbour list the vector gateway returns
MaxOps == 2          \* calls each thread makes on the cache
MaxTime == 2         \* ticks of the clock
MaxChats == 3        \* streaming chat requests
MaxTasks == 2        \* tasks handed to queue_embedding_update

----------------------------------------------------------------------------
(* Text *)

Lower(ch) ==
    CASE ch = "D" -> "d"
      [] ch = "E" -> "e"
      [] ch = "V" -> "v"
      [] ch = "O" -> "o"
      [] ch = "P" -> "p"
      [] ch = "J" -> "j"
      [] OTHER -> ch

ToLower(s) == [i \in 1..Len(s) |-> Lower(s[i])]

\* Python's `sub in s` on strings
Contains(sub, s) ==
    \E i \in 0..(Len(s) - Len(sub)) : SubSeq(s, i + 1, i + Len(sub)) = sub

\* Python's `x in list`
InList(x, xs) == \E i \in 1..Len(xs) : xs[i] = x

ListSet(xs) == {xs[i] : i \in 1..Len(xs)}

\* Python's xs[:n] for n >= 0
Take(xs, n) == SubSeq(xs, 1, IF n < Len(xs) THEN n ELSE Len(xs))

NoDup(xs) == \A i, j \in 1..Len(xs) : i # j => xs[i] # xs[j]

----------------------------------------------------------------------------
(* Data.  Salaries are amounts of money: naturals. *)

LocationTypes == {"remote", "hybrid", "onsite"}

NoJob == "none"      \* accepted_job_id is None

T_Dev == <<"D", "e", "v">>
T_Ops == <<"O", "p", "s">>
K_dev == <<"d", "e", "v">>
K_DE  == <<"D", "E">>
K_qa  == <<"q", "a">>
S_Py  == <<"P", "y">>
S_Ja  == <<"J", "a">>
S_De  == <<"D", "e">>

Job(id, title, skills, lt, smin, smax, ind) ==
    [id |-> id, title |-> title, required_skills |-> skills,
     location_type |-> lt, salary_min |-> smin, salary_max |-> smax,
     industry |-> ind]

J1 == Job("j1", T_Dev, <<S_Py, S_De>>, "remote", 150, 190, "tech")
J2 == Job("j2", T_Ops, <<S_Ja>>, "onsite", 200, 250, "health")
J3 == Job("j3", T_Dev, <<S_Py>>, "hybrid", 100, 170, "tech")

JobPool == {J1, J2, J3}

UnknownJob == "jX"   \* an id that resolves to no job of any catalog

Candidate(name, sal, titles, lts, inds, locs, skills, declined, accepted) ==
    [name |-> name, min_salary |-> sal, preferred_titles |-> titles,
     preferred_location_types |-> lts, preferred_industries |-> inds,
     preferred_locations |-> locs, skills |-> skills,
     declined_job_ids |-> declined, accepted_job_id |-> accepted]

UnknownCandidate == "cX"   \* an id that is not in the store

----------------------------------------------------------------------------
(* Optional arguments: <<>> is "not given" (None, or a key that is absent  *)
(* from the dictionary), <<v>> is the value v.                             *)

PatchFields ==
    <<"min_salary", "preferred_titles", "preferred_location_types",
      "preferred_industries", "preferred_locations", "skills">>

Provided(p, k) == p[k] # <<>>

NoPatch ==
    [min_salary |-> <<>>, preferred_titles |-> <<>>,
     preferred_location_types |-> <<>>, preferred_industries |-> <<>>,
     preferred_locations |-> <<>>, skills |-> <<>>]

\* preference_changes of search_with_updated_preferences
NoChanges ==
    [min_salary |-> <<>>, preferred_titles |-> <<>>,
     preferred_location_types |-> <<>>, preferred_industries |-> <<>>,
     skills |-> <<>>]

\* the changes dictionary of persist_preference_changes
NoPersist ==
    [min_salary |-> <<>>, preferred_location_types |-> <<>>,
     preferred_titles |-> <<>>, preferred_industries |-> <<>>,
     add_skill |-> <<>>]

\* What vector_service.search_by_text does when it is called: it raises, or
\* it returns a list of neighbours [id, distance] (distance in hundredths)
NoVector == [called |-> FALSE, throws |-> FALSE, neighbours |-> <<>>]

----------------------------------------------------------------------------
(* The outcome of a call, as the caller sees it *)

NoResult ==
    [op |-> "none", cid |-> "", raised |-> FALSE, error |-> FALSE,
     ret |-> FALSE, fields |-> <<>>, job_ids |-> <<>>,
     matches |-> <<>>, total_found |-> 0, filtered_out |-> 0,
     search_type |-> "", soft |-> FALSE, alternatives |-> <<>>,
     suggestions |-> <<>>, relaxed_criteria |-> <<>>,
     patch |-> NoPatch, changes |-> NoChanges, persist |-> NoPersist,
     num_results |-> 0,
     vector |-> NoVector, requested |-> 0, criteria |-> <<>>,
     declined_jobs_count |-> 0, message |-> ""]

Res(op, cid) == [NoResult EXCEPT !.op = op, !.cid = cid]

\* tool_context.state before any tool has run
NoState ==
    [candidate_id |-> "", accepted_job_id |-> NoJob,
     workflow_complete |-> FALSE, declined_job_ids |-> <<>>]

----------------------------------------------------------------------------
(* Candidate Store: src/src/services/candidate_service.py *)

\* CandidateService.get_candidate: the record, when the id resolves
Exists(cid) == cid \in DOMAIN candidates

\* CandidateService._save_candidates: the whole collection is rewritten
Saved(cache) == cache

\* CandidateService.update_candidate: store the record, then flush
StoreAndSave(cid, c) ==
    LET cache == [k \in DOMAIN candidates \cup {cid} |->
                     IF k = cid THEN c ELSE candidates[k]]
    IN  /\ candidates' = cache
        /\ persisted' = Saved(cache)

\* one `if x is not None: candidate.x = x` of update_preferences
Assign(c, p, k) == IF Provided(p, k) THEN [c EXCEPT ![k] = p[k][1]] ELSE c

\* LocationType(lt) raises ValueError on a string that is no member
ValidLocationTypes(lts) == \A i \in 1..Len(lts) : lts[i] \in LocationTypes

\* the fields update_preferences has assigned when LocationType(lt) raises
AssignedBeforeLocation(c, p) ==
    Assign(Assign(c, p, "min_salary"), p, "preferred_titles")

AssignedAll(c, p) ==
    Assign(Assign(Assign(Assign(AssignedBeforeLocation(c, p),
        p, "preferred_location_types"),
        p, "preferred_industries"),
        p, "preferred_locations"),
        p, "skills")

\* every field reported, given or not
UpdatedFieldsAll(p) == PatchFields

\* updated_fields, by field name, in the order update_preferences appends
UpdatedFields(p) ==
    SelectSeq(PatchFields, LAMBDA k : Provided(p, k))

LocationRaises(p) ==
    /\ Provided(p, "preferred_location_types")
    /\ ~ValidLocationTypes(p.preferred_location_types[1])

UpdatePreferences(cid, p) ==
    /\ UNCHANGED <<jobs, endpoint, overlay, queue, state>>
    /\ IF ~Exists(cid)
       THEN /\ result' = Res("update_preferences", cid)
            /\ UNCHANGED <<candidates, persisted, nmut>>
       ELSE /\ nmut < MaxMut
            /\ nmut' = nmut + 1
            /\ IF LocationRaises(p)
               THEN \* the candidate object in the cache is already mutated;
                    \* update_candidate is never reached
                    /\ candidates' = [candidates EXCEPT
                           ![cid] = AssignedBeforeLocation(candidates[cid], p)]
                    /\ UNCHANGED persisted
                    /\ result' = [Res("update_preferences", cid) EXCEPT
                           !.patch = p, !.raised = TRUE]
               ELSE /\ StoreAndSave(cid, AssignedAll(candidates[cid], p))
                    /\ result' = [Res("update_preferences", cid) EXCEPT
                           !.patch = p, !.ret = TRUE,
                           !.fields = UpdatedFields(p)]

AcceptJob(cid, jid) ==
    /\ UNCHANGED <<jobs, endpoint, overlay, queue, state>>
    /\ IF ~Exists(cid)
       THEN /\ result' = Res("accept_job", cid)
            /\ UNCHANGED <<candidates, persisted, nmut>>
       ELSE /\ nmut < MaxMut
            /\ nmut' = nmut + 1
            /\ StoreAndSave(cid,
                   [candidates[cid] EXCEPT !.accepted_job_id = jid])
            /\ result' = [Res("accept_job", cid) EXCEPT
                   !.job_ids = <<jid>>, !.ret = TRUE]

\* the append without its membership test
DeclineOneAppend(declined, jid) == Append(declined, jid)

\* `if job_id not in candidate.declined_job_ids: append(job_id)`
DeclineOne(declined, jid) ==
    IF InList(jid, declined) THEN declined ELSE Append(declined, jid)

RECURSIVE DeclineAll(_, _)
DeclineAll(declined, jids) ==
    IF jids = <<>> THEN declined
    ELSE DeclineAll(DeclineOne(declined, Head(jids)), Tail(jids))

DeclineJobs(cid, jids) ==
    /\ UNCHANGED <<jobs, endpoint, overlay, queue, state>>
    /\ IF ~Exists(cid)
       THEN /\ result' = Res("decline_jobs", cid)
            /\ UNCHANGED <<candidates, persisted, nmut>>
       ELSE /\ nmut < MaxMut
            /\ nmut' = nmut + 1
            /\ StoreAndSave(cid, [candidates[cid] EXCEPT
                   !.declined_job_ids = DeclineAll(@, jids)])
            /\ result' = [Res("decline_jobs", cid) EXCEPT
                   !.job_ids = jids, !.ret = TRUE]

GetDeclinedJobIds(cid) ==
    /\ UNCHANGED <<candidates, persisted, jobs, endpoint, overlay, queue, state, nmut>>
    /\ result' = [Res("get_declined_job_ids", cid) EXCEPT
           !.job_ids = IF Exists(cid)
                       THEN candidates[cid].declined_job_ids ELSE <<>>]

\* update_candidate called with a record built by the caller
\* (create_candidate, PATCH /candidates/{id})
UpdateCandidate(cid, c) ==
    /\ UNCHANGED <<jobs, endpoint, overlay, queue, state>>
    /\ nmut < MaxMut
    /\ nmut' = nmut + 1
    /\ StoreAndSave(cid, c)
    /\ result' = [Res("update_candidate", cid) EXCEPT !.ret = TRUE]

----------------------------------------------------------------------------
(* Conversational persistence: src/src/api/routes.py *)

\* list(set(existing) | set(new)): the union, in an order Python does not fix
Merged(existing, new) ==
    LET S == ListSet(existing) \cup ListSet(new)
    IN  {xs \in [1..Cardinality(S) -> S] : NoDup(xs)}

\* the location types are assigned unless LocationType(lt) raises
PersistLocation(c, ch) ==
    IF Provided(ch, "preferred_location_types")
       /\ ValidLocationTypes(ch.preferred_location_types[1])
    THEN [c EXCEPT !.preferred_location_types = ch.preferred_location_types[1]]
    ELSE c

PersistSkill(c, ch) ==
    IF Provided(ch, "add_skill") /\ ~InList(ch.add_skill[1], c.skills)
    THEN [c EXCEPT !.skills = Append(@, ch.add_skill[1])]
    ELSE c

MadeChanges(c, ch) ==
    \/ Provided(ch, "min_salary")
    \/ Provided(ch, "preferred_location_types")
       /\ ValidLocationTypes(ch.preferred_location_types[1])
    \/ Provided(ch, "preferred_titles")
    \/ Provided(ch, "preferred_industries")
    \/ Provided(ch, "add_skill") /\ ~InList(ch.add_skill[1], c.skills)

\* the records persist_preference_changes may leave, one per merge order
PersistOutcomes(c, ch) ==
    LET base == PersistSkill(PersistLocation(Assign(c, ch, "min_salary"), ch),
                             ch)
        titles == IF Provided(ch, "preferred_titles")
                  THEN Merged(c.preferred_titles, ch.preferred_titles[1])
                  ELSE {c.preferred_titles}
        industries == IF Provided(ch, "preferred_industries")
                      THEN Merged(c.preferred_industries,
                                  ch.preferred_industries[1])
                      ELSE {c.preferred_industries}
    IN  {[base EXCEPT !.preferred_titles = t, !.preferred_industries = i] :
            t \in titles, i \in industries}

PersistPreferenceChanges(cid, ch) ==
    /\ UNCHANGED <<jobs, endpoint, overlay, queue, state>>
    /\ IF ch = NoPersist \/ ~Exists(cid)
       THEN /\ result' = Res("persist_preference_changes", cid)
            /\ UNCHANGED <<candidates, persisted, nmut>>
       ELSE IF ~MadeChanges(candidates[cid], ch)
       THEN /\ result' = [Res("persist_preference_changes", cid) EXCEPT
                   !.persist = ch]
            /\ UNCHANGED <<candidates, persisted, nmut>>
       ELSE /\ nmut < MaxMut
            /\ nmut' = nmut + 1
            /\ \E c \in PersistOutcomes(candidates[cid], ch) :
                   StoreAndSave(cid, c)
            /\ result' = [Res("persist_preference_changes", cid) EXCEPT
                   !.persist = ch, !.ret = TRUE]

----------------------------------------------------------------------------
(* Catalog Store: src/src/services/job_service.py *)

JobExists(id) == \E i \in 1..Len(jobs) : jobs[i].id = id

\* JobService.get_job, for an id that resolves
GetJob(id) == jobs[CHOOSE i \in 1..Len(jobs) : jobs[i].id = id]

\* JobService.format_job_for_display with a match score
Match(job, score) == [id |-> job.id, match_score |-> score]

----------------------------------------------------------------------------
(* Agent tools: src/src/agent/tools.py *)

\* accept_job: the session state is written first; the candidate and the
\* job are looked up; an error is returned for either that is missing
ToolAcceptJob(cid, jid) ==
    /\ UNCHANGED <<jobs, endpoint, overlay, queue>>
    /\ state' = [state EXCEPT !.candidate_id = cid,
                              !.accepted_job_id = jid,
                              !.workflow_complete = TRUE]
    /\ IF ~Exists(cid)
       THEN /\ result' = [Res("tool_accept_job", cid) EXCEPT !.error = TRUE]
            /\ UNCHANGED <<candidates, persisted, nmut>>
       ELSE IF ~JobExists(jid)
       THEN /\ result' = [Res("tool_accept_job", cid) EXCEPT
                   !.job_ids = <<jid>>, !.error = TRUE]
            /\ UNCHANGED <<candidates, persisted, nmut>>
       ELSE /\ nmut < MaxMut
            /\ nmut' = nmut + 1
            /\ StoreAndSave(cid,
                   [candidates[cid] EXCEPT !.accepted_job_id = jid])
            /\ result' = [Res("tool_accept_job", cid) EXCEPT
                   !.job_ids = <<jid>>, !.ret = TRUE]

\* decline_jobs: the session list is extended; only the candidate is looked
\* up, the job ids go to the store as they are
ToolDeclineJobs(cid, jids) ==
    /\ UNCHANGED <<jobs, endpoint, overlay, queue>>
    /\ Len(state.declined_job_ids) < MaxMut
    /\ state' = [state EXCEPT !.candidate_id = cid,
                              !.declined_job_ids = @ \o jids]
    /\ IF ~Exists(cid)
       THEN /\ result' = [Res("tool_decline_jobs", cid) EXCEPT !.error = TRUE]
            /\ UNCHANGED <<candidates, persisted, nmut>>
       ELSE /\ nmut < MaxMut
            /\ nmut' = nmut + 1
            /\ StoreAndSave(cid, [candidates[cid] EXCEPT
                   !.declined_job_ids = DeclineAll(@, jids)])
            /\ result' = [Res("tool_decline_jobs", cid) EXCEPT
                   !.job_ids = jids, !.ret = TRUE,
                   !.declined_jobs_count =
                       Len(DeclineAll(candidates[cid].declined_job_ids,
                                      jids))]

----------------------------------------------------------------------------
(* Match Orchestrator: src/src/services/matching_service.py *)

\* Python's xs[:n], n of either sign
Slice(xs, n) ==
    IF n >= 0 THEN Take(xs, n)
    ELSE SubSeq(xs, 1, IF Len(xs) + n > 0 THEN Len(xs) + n ELSE 0)

\* the list left in the order it was built
Unsorted(xs, keys) == xs

\* list.sort(key, reverse=True): descending, equal keys keep their order
\* keys[i] is the key of xs[i]
SortDesc(xs, keys) ==
    LET n == Len(xs)
        Before(i, j) == keys[i] > keys[j] \/ (keys[i] = keys[j] /\ i < j)
        Rank(i) == 1 + Cardinality({j \in 1..n : Before(j, i)})
    IN  [k \in 1..n |-> xs[CHOOSE i \in 1..n : Rank(i) = k]]

Declined(c, job) == InList(job.id, c.declined_job_ids)

\* `min_salary > 0 and job.salary_max < min_salary`: the job is rejected
BelowSalary(min_salary, job) == min_salary > 0 /\ job.salary_max < min_salary

\* `if types: if job.location_type not in types`: the job is rejected
WrongLocation(types, job) ==
    types # <<>> /\ ~InList(job.location_type, types)

\* any(keyword.lower() in job.title.lower() for keyword in titles)
TitleMatch(titles, job) ==
    \E i \in 1..Len(titles) : Contains(ToLower(titles[i]), ToLower(job.title))

\* `if titles: if not title_match`: the job is rejected
WrongTitle(titles, job) == titles # <<>> /\ ~TitleMatch(titles, job)

SkillOverlap(c, job) ==
    Cardinality(ListSet(c.skills) \cap ListSet(job.required_skills))

\* score / 10 without the cap
FallbackMatchScoreUncapped(score2) == score2 * 5

\* round(min(score / 10, 1.0), 2) in hundredths, the score given in halves
FallbackMatchScore(score2) == IF score2 * 5 < 100 THEN score2 * 5 ELSE 100

\* round(1 - distance, 2) in hundredths
VectorMatchScore(distance) == 100 - distance

Scored(job, score2) == [job |-> job, score2 |-> score2]

ScoreKeys(xs) == [i \in 1..Len(xs) |-> xs[i].score2]

\* _fallback_search ------------------------------------------------------

\* the filter without its salary test
FallbackRejectedLocationOnly(c, job) ==
    WrongLocation(c.preferred_location_types, job)

FallbackRejected(c, job) ==
    \/ BelowSalary(c.min_salary, job)
    \/ WrongLocation(c.preferred_location_types, job)

\* (skill_overlap * 2) + salary_bonus + industry_bonus, in halves
FallbackScore2(c, job) ==
    4 * SkillOverlap(c, job)
    + (IF job.salary_min >= c.min_salary THEN 2 ELSE 1)
    + (IF InList(job.industry, c.preferred_industries) THEN 2 ELSE 0)

FallbackSearch(cid, c, num_results) ==
    LET open == SelectSeq(jobs, LAMBDA j : ~Declined(c, j))
        kept == SelectSeq(open, LAMBDA j : ~FallbackRejected(c, j))
        scored == [i \in 1..Len(kept) |->
                      Scored(kept[i], FallbackScore2(c, kept[i]))]
        top == Slice(SortDesc(scored, ScoreKeys(scored)), num_results)
        matched == [i \in 1..Len(top) |->
                       Match(top[i].job, FallbackMatchScore(top[i].score2))]
    IN  [Res("search_jobs_for_candidate", cid) EXCEPT
            !.matches = matched,
            !.total_found = Len(matched),
            !.filtered_out = Len(open) - Len(kept),
            !.search_type = "fallback"]

\* _vector_search --------------------------------------------------------

VectorSearch(cid, c, num_results, neighbours) ==
    LET walked == Slice(neighbours, num_results)
        found == SelectSeq(walked, LAMBDA r : JobExists(r.id))
        matched == [i \in 1..Len(found) |->
                       Match(GetJob(found[i].id),
                             VectorMatchScore(found[i].distance))]
    IN  [Res("search_jobs_for_candidate", cid) EXCEPT
            !.matches = matched,
            !.total_found = Len(matched),
            !.search_type = "vector",
            !.requested = num_results + Len(c.declined_job_ids)]

\* search_jobs_for_candidate ---------------------------------------------

Digit(d) == <<"0", "1", "2", "3", "4", "5", "6", "7", "8", "9">>[d + 1]

RECURSIVE Decimal(_)
Decimal(n) ==
    IF n < 10 THEN <<Digit(n)>>
    ELSE Append(Decimal(n \div 10), Digit(n % 10))

\* f"${min_salary:,}" for an amount of k thousand, 0 < k < 1000
FormatSalary(k) == <<"$">> \o Decimal(k) \o <<",", "0", "0", "0">>

\* one part of the criteria: f"{label}: {text}", a list standing for its
\* ', '.join
CriteriaPart(label, text) == [label |-> label, text |-> text]

\* _build_preference_criteria: the parts that " | ".join puts together
BuildPreferenceCriteria(c) ==
    (IF c.min_salary > 0
     THEN <<CriteriaPart("Minimum salary", FormatSalary(c.min_salary))>>
     ELSE <<>>)
    \o (IF c.preferred_location_types # <<>>
        THEN <<CriteriaPart("Work style", c.preferred_location_types)>>
        ELSE <<>>)
    \o (IF c.preferred_industries # <<>>
        THEN <<CriteriaPart("Industries", c.preferred_industries)>>
        ELSE <<>>)
    \o (IF c.preferred_titles # <<>>
        THEN <<CriteriaPart("Roles", c.preferred_titles)>>
        ELSE <<>>)

\* the vector service is called only when it has an endpoint
Called(v) == IF endpoint THEN [v EXCEPT !.called = TRUE] ELSE NoVector

\* an empty result in place of the error
SearchNotFoundEmpty(op, cid) == Res(op, cid)

SearchNotFound(op, cid) == [Res(op, cid) EXCEPT !.error = TRUE]

\* v is what the vector service does if it is called
SearchJobsResult(cid, num_results, v) ==
    IF ~Exists(cid) THEN SearchNotFound("search_jobs_for_candidate", cid)
    ELSE IF endpoint /\ ~v.throws
         THEN VectorSearch(cid, candidates[cid], num_results, v.neighbours)
         ELSE FallbackSearch(cid, candidates[cid], num_results)

SearchJobsForCandidate(cid, num_results, v) ==
    /\ UNCHANGED <<candidates, persisted, jobs, endpoint, overlay, queue, state, nmut>>
    /\ result' = IF ~Exists(cid) THEN SearchJobsResult(cid, num_results, v)
                  ELSE [SearchJobsResult(cid, num_results, v) EXCEPT
                           !.criteria =
                               BuildPreferenceCriteria(candidates[cid]),
                           !.num_results = num_results,
                           !.vector = Called(v)]

\* search_jobs_by_text ---------------------------------------------------

\* every job of the catalog returned with a score, in place of the error
TextSearchFallsBack(message) ==
    [Res("search_jobs_by_text", "") EXCEPT
        !.matches = [i \in 1..Len(jobs) |-> Match(jobs[i], 0)],
        !.total_found = Len(jobs),
        !.search_type = "fallback"]

\* {"error": message, "results": []}
TextSearchError(message) ==
    [Res("search_jobs_by_text", "") EXCEPT
        !.error = TRUE, !.message = message]

\* every neighbour returned is walked; those that resolve are formatted
TextSearchResults(neighbours) ==
    LET found == SelectSeq(neighbours, LAMBDA r : JobExists(r.id))
        matched == [i \in 1..Len(found) |->
                       Match(GetJob(found[i].id),
                             VectorMatchScore(found[i].distance))]
    IN  [Res("search_jobs_by_text", "") EXCEPT
            !.matches = matched,
            !.total_found = Len(matched),
            !.search_type = "vector"]

SearchJobsByText(num_results, v) ==
    /\ UNCHANGED <<candidates, persisted, jobs, endpoint, overlay, queue, state, nmut>>
    /\ result' =
           [(IF ~endpoint THEN TextSearchError("Vector search not available")
             ELSE IF v.throws THEN TextSearchError("exception")
             ELSE TextSearchResults(v.neighbours)) EXCEPT
                !.num_results = num_results,
                !.requested = IF endpoint THEN num_results ELSE 0,
                !.vector = Called(v)]

\* search_with_updated_preferences: the values the filters use -----------

\* the stored value, whatever preference_changes holds
EffectiveStored(c, ch, k) == c[k]

\* preference_changes.get(key, the candidate's stored value)
Effective(c, ch, k) == IF Provided(ch, k) THEN ch[k][1] ELSE c[k]

\* _vector_search_augmented ----------------------------------------------

AugmentedRejected(c, ch, job) ==
    \/ WrongLocation(Effective(c, ch, "preferred_location_types"), job)
    \/ BelowSalary(Effective(c, ch, "min_salary"), job)
    \/ WrongTitle(Effective(c, ch, "preferred_titles"), job)

\* the loop over the neighbours: acc is [matched, filtered]
RECURSIVE AugmentedWalk(_, _, _, _, _)
AugmentedWalk(c, ch, num_results, rest, acc) ==
    IF rest = <<>> \/ Len(acc.matched) >= num_results THEN acc
    ELSE LET r == Head(rest)
         IN  IF ~JobExists(r.id)
             THEN AugmentedWalk(c, ch, num_results, Tail(rest), acc)
             ELSE IF AugmentedRejected(c, ch, GetJob(r.id))
             THEN AugmentedWalk(c, ch, num_results, Tail(rest),
                      [acc EXCEPT !.filtered = @ + 1])
             ELSE AugmentedWalk(c, ch, num_results, Tail(rest),
                      [acc EXCEPT !.matched = Append(@,
                          Match(GetJob(r.id), VectorMatchScore(r.distance)))])

\* the declined ids alone multiplied
FetchCountDeclinedOnly(c, num_results) ==
    num_results + Len(c.declined_job_ids) * 5

\* fetch_count = (num_results + len(filter_ids)) * 5
FetchCount(c, num_results) == (num_results + Len(c.declined_job_ids)) * 5

VectorSearchAugmented(cid, c, ch, num_results, neighbours) ==
    LET acc == AugmentedWalk(c, ch, num_results, neighbours,
                             [matched |-> <<>>, filtered |-> 0])
    IN  [Res("search_with_updated_preferences", cid) EXCEPT
            !.matches = acc.matched,
            !.total_found = Len(acc.matched),
            !.filtered_out = acc.filtered,
            !.search_type = "vector_augmented",
            !.requested = FetchCount(c, num_results)]

\* _fallback_search_augmented --------------------------------------------

\* skill overlap x 2, +3 salary, +2 industry, +3 when titles are required
AugmentedScore2(c, ch, job) ==
    2 * ( 2 * SkillOverlap(c, job)
        + (IF job.salary_min >= Effective(c, ch, "min_salary") THEN 3 ELSE 0)
        + (IF InList(job.industry, Effective(c, ch, "preferred_industries"))
           THEN 2 ELSE 0)
        + (IF Effective(c, ch, "preferred_titles") # <<>> THEN 3 ELSE 0) )

FallbackSearchAugmented(cid, c, ch, num_results) ==
    LET open == SelectSeq(jobs, LAMBDA j : ~Declined(c, j))
        kept == SelectSeq(open, LAMBDA j : ~AugmentedRejected(c, ch, j))
        scored == [i \in 1..Len(kept) |->
                      Scored(kept[i], AugmentedScore2(c, ch, kept[i]))]
        top == Slice(SortDesc(scored, ScoreKeys(scored)), num_results)
        matched == [i \in 1..Len(top) |->
                       Match(top[i].job, FallbackMatchScore(top[i].score2))]
    IN  [Res("search_with_updated_preferences", cid) EXCEPT
            !.matches = matched,
            !.total_found = Len(matched),
            !.filtered_out = Len(open) - Len(kept),
            !.search_type = "fallback_augmented"]

\* _soft_match_search ----------------------------------------------------

Alternative(job, relaxed) == [id |-> job.id, relaxed |-> relaxed]

Relaxed(key, count) == [key |-> key, count |-> count]

\* a suggestion sentence: the dimension it is about and the number it cites
Suggestion(kind, cites) == [kind |-> kind, cites |-> cites]

Alternatives(found, relaxed, num_results) ==
    LET top == Slice(found, num_results)
    IN  [i \in 1..Len(top) |-> Alternative(top[i], relaxed)]

\* strategy 1: title and salary kept, location dropped
LocationRelaxedJobs(c, min_salary, titles) ==
    SelectSeq(jobs, LAMBDA j :
        /\ ~Declined(c, j)
        /\ ~(j.salary_max < min_salary)
        /\ TitleMatch(titles, j))

\* strategy 2: location and salary kept, title dropped
TitleRelaxedJobs(c, min_salary, types) ==
    SelectSeq(jobs, LAMBDA j :
        /\ ~Declined(c, j)
        /\ ~(j.salary_max < min_salary)
        /\ InList(j.location_type, types))

\* strategy 3: a required skill that contains, or is contained in, a title
SkillRelated(titles, skill) ==
    \E i \in 1..Len(titles) :
        \/ Contains(ToLower(titles[i]), ToLower(skill))
        \/ Contains(ToLower(skill), ToLower(titles[i]))

SkillBasedJobs(c, titles) ==
    SelectSeq(jobs, LAMBDA j :
        /\ ~Declined(c, j)
        /\ \E i \in 1..Len(j.required_skills) :
               SkillRelated(titles, j.required_skills[i]))

\* the skill of each such job that the loop meets first
SkillSuggestions(found, titles) ==
    {LET sk == found[n].required_skills
     IN  sk[CHOOSE i \in 1..Len(sk) :
               /\ SkillRelated(titles, sk[i])
               /\ \A k \in 1..(i - 1) : ~SkillRelated(titles, sk[k])]
     : n \in 1..Len(found)}

\* strategy 4: title kept, salary floor dropped, highest salary_max first
SalaryKeys(xs) == [i \in 1..Len(xs) |-> xs[i].salary_max]

SalaryJobs(c, titles) ==
    LET found == SelectSeq(jobs, LAMBDA j :
                     ~Declined(c, j) /\ ~WrongTitle(titles, j))
    IN  SortDesc(found, SalaryKeys(found))

\* the strategies run in this order on one accumulator
\* soft is [alternatives, suggestions, relaxed_criteria, raises]
SoftStrategy1(c, min_salary, types, titles, num_results, soft) ==
    LET found == LocationRelaxedJobs(c, min_salary, titles)
    IN  IF titles # <<>> /\ found # <<>>
        THEN [soft EXCEPT
                 !.alternatives = @ \o Alternatives(found, "location",
                                                    num_results),
                 !.suggestions = IF types # <<>>
                     THEN Append(@, Suggestion("location", Len(found)))
                     ELSE @,
                 !.relaxed_criteria = Append(@,
                     Relaxed("location_relaxed", Len(found)))]
        ELSE soft

SoftStrategy2(c, min_salary, types, titles, num_results, soft) ==
    LET found == TitleRelaxedJobs(c, min_salary, types)
    IN  IF soft.alternatives = <<>> /\ types # <<>> /\ found # <<>>
        THEN [soft EXCEPT
                 !.alternatives = @ \o Alternatives(found, "title",
                                                    num_results),
                 !.suggestions = Append(@, Suggestion("title", Len(found))),
                 !.relaxed_criteria = Append(@,
                     Relaxed("title_relaxed", Len(found)))]
        ELSE soft

SoftStrategy3(c, min_salary, types, titles, num_results, soft) ==
    LET found == SkillBasedJobs(c, titles)
        skills == SkillSuggestions(found, titles)
        cited == IF Cardinality(skills) < 3 THEN Cardinality(skills) ELSE 3
    IN  IF titles # <<>> /\ found # <<>> /\ soft.alternatives = <<>>
        THEN [soft EXCEPT
                 !.alternatives = @ \o Alternatives(found, "skill_based",
                                                    num_results),
                 !.suggestions = Append(@, Suggestion("skill_based", cited)),
                 !.relaxed_criteria = Append(@,
                     Relaxed("skill_based", Len(found)))]
        ELSE soft

\* the first alternative of strategy 4 evaluates job.format_salary(), a
\* method Job does not have: AttributeError, before anything is appended
SoftStrategy4(c, min_salary, types, titles, num_results, soft) ==
    LET found == SalaryJobs(c, titles)
    IN  IF soft.alternatives = <<>> /\ found # <<>>
        THEN IF Slice(found, num_results) # <<>>
             THEN [soft EXCEPT !.raises = TRUE]
             ELSE [soft EXCEPT
                      !.suggestions = Append(@,
                          Suggestion("salary", found[1].salary_max)),
                      !.relaxed_criteria = Append(@,
                          Relaxed("any_salary", Len(found)))]
        ELSE soft

NoSoft == [alternatives |-> <<>>, suggestions |-> <<>>,
           relaxed_criteria |-> <<>>, raises |-> FALSE]

SoftMatchSearch(c, ch, num_results) ==
    LET min_salary == Effective(c, ch, "min_salary")
        types == Effective(c, ch, "preferred_location_types")
        titles == Effective(c, ch, "preferred_titles")
        s1 == SoftStrategy1(c, min_salary, types, titles, num_results, NoSoft)
        s2 == SoftStrategy2(c, min_salary, types, titles, num_results, s1)
        s3 == SoftStrategy3(c, min_salary, types, titles, num_results, s2)
    IN  SoftStrategy4(c, min_salary, types, titles, num_results, s3)

\* search_with_updated_preferences ---------------------------------------

\* an embedding-refresh task of the queue
EmbeddingTask(cid) == [entity_type |-> "candidate", entity_id |-> cid]

\* _queue_embedding_update: logs that the update is skipped and returns
\* None; nothing is put on the queue
QueueEmbeddingUpdate(cid, ch) == queue

\* the STRICT search: the vector path, or the fallback when the index is not
\* configured or the vector call raises
StrictSearch(cid, c, ch, num_results, v) ==
    IF endpoint /\ ~v.throws
    THEN VectorSearchAugmented(cid, c, ch, num_results, v.neighbours)
    ELSE FallbackSearchAugmented(cid, c, ch, num_results)

\* `if result.get("total_found", 0) == 0:` merge the soft matches; the call
\* is outside the try, so what _soft_match_search raises leaves the search
\* (the record then keeps what the strict search had found: nothing)
WithSoftMatches(strict, c, ch, num_results) ==
    IF strict.total_found = 0
    THEN LET soft == SoftMatchSearch(c, ch, num_results)
         IN  IF soft.raises THEN [strict EXCEPT !.raised = TRUE]
             ELSE [strict EXCEPT !.soft = TRUE,
                      !.alternatives = soft.alternatives,
                      !.suggestions = soft.suggestions,
                      !.relaxed_criteria = soft.relaxed_criteria]
    ELSE strict

SearchUpdatedResult(cid, ch, num_results, v) ==
    IF ~Exists(cid)
    THEN SearchNotFound("search_with_updated_preferences", cid)
    ELSE WithSoftMatches(
             StrictSearch(cid, candidates[cid], ch, num_results, v),
             candidates[cid], ch, num_results)

SearchWithUpdatedPreferences(cid, ch, num_results, v) ==
    /\ UNCHANGED <<candidates, persisted, jobs, endpoint, overlay, state, nmut>>
    /\ queue' = IF Exists(cid) THEN QueueEmbeddingUpdate(cid, ch) ELSE queue
    /\ result' = IF ~Exists(cid)
                  THEN SearchUpdatedResult(cid, ch, num_results, v)
                  ELSE [SearchUpdatedResult(cid, ch, num_results, v) EXCEPT
                           !.changes = ch,
                           !.num_results = num_results,
                           !.vector = Called(v)]

----------------------------------------------------------------------------
(* TTL cache: src/src/services/cache_service.py                            *)
(* Each thread is at a position of the operation it runs; an operation     *)
(* takes the lock, runs its body one statement at a time and releases.     *)

Threads == {"t1", "t2"}

NoThread == "none"

Keys == {"k1"}

\* the ttl a caller passes, in ticks
Ttls == {1}

\* CacheEntry
CacheEntry(value, expires_at) == [value |-> value, expires_at |-> expires_at]

\* CacheEntry.is_expired, at the time it is evaluated
IsExpired(entry) == now > entry.expires_at

\* CacheService.__init__
NoCache ==
    [entries |-> << >>, lock |-> NoThread, hits |-> 0, misses |-> 0]

\* a thread outside every call; calls, gets and evicted count what it has
\* done: calls made, gets completed, expired entries evicted
IdleThread ==
    [pc |-> "idle", op |-> "", key |-> "", arg |-> <<>>, entry |-> <<>>,
     n |-> 0,
     keys |-> {}, expires_at |-> 0, ret |-> <<>>, expired |-> FALSE,
     checked_at |-> 0, failed |-> FALSE, calls |-> 0, gets |-> 0,
     evicted |-> 0]

\* AsyncEmbeddingService.__init__; enqueued, issued, taken, done and stopped
\* record what has happened: tasks accepted, the tasks returned to the
\* caller, the tasks taken from the queue in order, the tasks whose outcome is
\* recorded, whether stop() has been called
NoEmb ==
    [running |-> FALSE, pending_tasks |-> << >>,
     completed_tasks |-> << >>, worker_thread |-> 0,
     workers |-> [w \in {1, 2} |->
                     [pc |-> "unborn", task |-> <<>>, embedding |-> "",
                      success |-> FALSE]],
     caller |-> [pc |-> "idle", task |-> <<>>],
     enqueued |-> 0, issued |-> <<>>, taken |-> <<>>, done |-> {},
     stopped |-> FALSE]

OverlayInit ==
    /\ tcache = NoCache
    /\ now = 0
    /\ th = [t \in Threads |-> IdleThread]
    /\ emb = NoEmb

\* the lock is taken whether it is free or not
LockIgnored == TRUE

\* `with self._lock:` can be entered
LockFree == tcache.lock = NoThread

Without(entries, keys) == [k \in DOMAIN entries \ keys |-> entries[k]]

With(entries, key, entry) ==
    [k \in DOMAIN entries \cup {key} |->
        IF k = key THEN entry ELSE entries[k]]

\* a thread enters get, delete, clear or cleanup_expired
Call(t, op, key) ==
    /\ th[t].pc = "idle"
    /\ ~th[t].failed
    /\ th[t].calls < MaxOps
    /\ th' = [th EXCEPT ![t] = [IdleThread EXCEPT
                  !.pc = "acquire", !.op = op, !.key = key,
                  !.calls = th[t].calls + 1, !.gets = th[t].gets,
                  !.evicted = th[t].evicted]]
    /\ UNCHANGED <<tcache, now, handlers, emb>>

\* a thread enters set: expires_at is computed before the lock is taken
CallSet(t, key, ttl) ==
    /\ th[t].pc = "idle"
    /\ ~th[t].failed
    /\ th[t].calls < MaxOps
    /\ th' = [th EXCEPT ![t] = [IdleThread EXCEPT
                  !.pc = "acquire", !.op = "set", !.key = key,
                  !.expires_at = now + ttl,
                  !.calls = th[t].calls + 1, !.gets = th[t].gets,
                  !.evicted = th[t].evicted]]
    /\ UNCHANGED <<tcache, now, handlers, emb>>

\* `with self._lock:` is entered
Acquire(t) ==
    /\ th[t].pc = "acquire"
    /\ LockFree
    /\ tcache' = [tcache EXCEPT !.lock = t]
    /\ th' = [th EXCEPT ![t].pc = th[t].op]
    /\ UNCHANGED <<now, handlers, emb>>

\* get: entry = self._cache.get(key); `if entry is None`
GetRead(t) ==
    /\ th[t].pc = "get"
    /\ th' = [th EXCEPT ![t] =
                 IF th[t].key \in DOMAIN tcache.entries
                 THEN [@ EXCEPT !.entry = <<tcache.entries[th[t].key]>>,
                                !.pc = "get_check"]
                 ELSE [@ EXCEPT !.pc = "miss_load"]]
    /\ UNCHANGED <<tcache, now, handlers, emb>>

\* get: `if entry.is_expired():`
GetCheck(t) ==
    /\ th[t].pc = "get_check"
    /\ th' = [th EXCEPT ![t] =
                 [@ EXCEPT !.checked_at = now,
                           !.expired = IsExpired(th[t].entry[1]),
                           !.pc = IF IsExpired(th[t].entry[1])
                                  THEN "get_del" ELSE "hit_load"]]
    /\ UNCHANGED <<tcache, now, handlers, emb>>

\* get: `del self._cache[key]`; KeyError if the key is no longer there (the
\* with statement then releases the lock and the error leaves get)
GetDel(t) ==
    /\ th[t].pc = "get_del"
    /\ IF th[t].key \in DOMAIN tcache.entries
       THEN /\ tcache' = [tcache EXCEPT !.entries = Without(@, {th[t].key})]
            /\ th' = [th EXCEPT ![t].pc = "miss_load",
                                ![t].evicted = @ + 1]
       ELSE /\ tcache' = [tcache EXCEPT
                   !.lock = IF @ = t THEN NoThread ELSE @]
            /\ th' = [th EXCEPT ![t].pc = "idle", ![t].failed = TRUE]
    /\ UNCHANGED <<now, handlers, emb>>

\* get: `self._misses += 1`, the read
MissLoad(t) ==
    /\ th[t].pc = "miss_load"
    /\ th' = [th EXCEPT ![t].n = tcache.misses, ![t].pc = "miss_store"]
    /\ UNCHANGED <<tcache, now, handlers, emb>>

\* get: `self._misses += 1`, the write; `return None`
MissStore(t) ==
    /\ th[t].pc = "miss_store"
    /\ tcache' = [tcache EXCEPT !.misses = th[t].n + 1]
    /\ th' = [th EXCEPT ![t].ret = <<>>, ![t].pc = "release"]
    /\ UNCHANGED <<now, handlers, emb>>

\* get: `self._hits += 1`, the read
HitLoad(t) ==
    /\ th[t].pc = "hit_load"
    /\ th' = [th EXCEPT ![t].n = tcache.hits, ![t].pc = "hit_store"]
    /\ UNCHANGED <<tcache, now, handlers, emb>>

\* get: `self._hits += 1`, the write; `return entry.value`
HitStore(t) ==
    /\ th[t].pc = "hit_store"
    /\ tcache' = [tcache EXCEPT !.hits = th[t].n + 1]
    /\ th' = [th EXCEPT ![t].ret = <<th[t].entry[1].value>>,
                        ![t].pc = "release"]
    /\ UNCHANGED <<now, handlers, emb>>

\* set: self._cache[key] = CacheEntry(value, expires_at)
SetStore(t) ==
    /\ th[t].pc = "set"
    /\ tcache' = [tcache EXCEPT
           !.entries = With(@, th[t].key,
                            CacheEntry("v", th[t].expires_at))]
    /\ th' = [th EXCEPT ![t].pc = "release"]
    /\ UNCHANGED <<now, handlers, emb>>

\* delete: `if key in self._cache: del self._cache[key]`
DeleteKey(t) ==
    /\ th[t].pc = "delete"
    /\ tcache' = [tcache EXCEPT !.entries = Without(@, {th[t].key})]
    /\ th' = [th EXCEPT
           ![t].ret = <<th[t].key \in DOMAIN tcache.entries>>,
           ![t].pc = "release"]
    /\ UNCHANGED <<now, handlers, emb>>

\* clear: count = len(self._cache); self._cache.clear()
ClearAll(t) ==
    /\ th[t].pc = "clear"
    /\ tcache' = [tcache EXCEPT !.entries = << >>]
    /\ th' = [th EXCEPT ![t].ret = <<Cardinality(DOMAIN tcache.entries)>>,
                        ![t].pc = "release"]
    /\ UNCHANGED <<now, handlers, emb>>

\* cleanup_expired: expired_keys = [k ... if v.expires_at < now]
CleanupScan(t) ==
    /\ th[t].pc = "cleanup_expired"
    /\ th' = [th EXCEPT
           ![t].keys = {k \in DOMAIN tcache.entries :
                           tcache.entries[k].expires_at < now},
           ![t].pc = "cleanup_del"]
    /\ UNCHANGED <<tcache, now, handlers, emb>>

\* cleanup_expired: `for key in expired_keys: del self._cache[key]`;
\* KeyError if one of them is no longer there
CleanupDel(t) ==
    /\ th[t].pc = "cleanup_del"
    /\ IF th[t].keys \subseteq DOMAIN tcache.entries
       THEN /\ tcache' = [tcache EXCEPT !.entries = Without(@, th[t].keys)]
            /\ th' = [th EXCEPT ![t].ret = <<Cardinality(th[t].keys)>>,
                                ![t].pc = "release"]
       ELSE /\ tcache' = [tcache EXCEPT
                   !.entries = Without(@, th[t].keys),
                   !.lock = IF @ = t THEN NoThread ELSE @]
            /\ th' = [th EXCEPT ![t].pc = "idle", ![t].failed = TRUE]
    /\ UNCHANGED <<now, handlers, emb>>

\* the with statement is left and the call returns
Release(t) ==
    /\ th[t].pc = "release"
    /\ tcache' = [tcache EXCEPT !.lock = IF @ = t THEN NoThread ELSE @]
    /\ th' = [th EXCEPT ![t].pc = "idle",
                        ![t].gets = IF th[t].op = "get" THEN @ + 1 ELSE @]
    /\ UNCHANGED <<now, handlers, emb>>

\* time passes
Tick ==
    /\ now < MaxTime
    /\ now' = now + 1
    /\ UNCHANGED <<tcache, th, handlers, emb>>

----------------------------------------------------------------------------
(* Streaming chat: the existence check through the cache                   *)
(* src/src/api/routes.py, chat_with_agent_stream.generate                  *)

\* cache.set(cache_key, candidate_exists, ttl=60), in ticks of one minute
ExistsTtl == 1

\* candidate_cache_key
CandidateCacheKey(cid) == <<"candidate", cid>>

\* cache.get(key) as one call: the value when the entry is there and has
\* not expired, None otherwise
CacheHit(key) ==
    /\ key \in DOMAIN tcache.entries
    /\ ~IsExpired(tcache.entries[key])

\* the cache after cache.get(key): an expired entry is evicted, one counter
\* moves
AfterGet(key) ==
    IF CacheHit(key)
    THEN [tcache EXCEPT !.hits = @ + 1]
    ELSE [tcache EXCEPT !.entries = Without(@, {key}), !.misses = @ + 1]

\* the existence check of a streaming chat request, up to the "not found"
\* event; nothing between cache.get and cache.set awaits, so no other request
\* runs in between.  ret is the answer the request acts on.
ChatStreamExists(cid) ==
    LET key    == CandidateCacheKey(cid)
        got    == AfterGet(key)
        answer == IF CacheHit(key) THEN tcache.entries[key].value
                  ELSE Exists(cid)
    IN  /\ tcache.hits + tcache.misses < MaxChats
        /\ tcache' = IF CacheHit(key) THEN got
                     ELSE [got EXCEPT !.entries =
                              With(@, key,
                                   CacheEntry(answer, now + ExistsTtl))]
        /\ result' = [Res("chat_stream", cid) EXCEPT
                         !.ret = answer, !.error = ~answer]
        /\ UNCHANGED <<candidates, persisted, jobs, endpoint, queue, state,
                       now, th, emb, nmut>>

----------------------------------------------------------------------------
(* Background embedding updates:                                           *)
(* src/src/services/async_embedding_service.py                             *)
(* One caller thread makes the calls of the public interface; every        *)
(* start() that finds the service stopped creates a worker thread, which   *)
(* runs _process_queue one statement at a time.                            *)

\* everything the embedding service does not touch
served ==
    <<candidates, persisted, jobs, endpoint, result, state, nmut, tcache,
      now, th>>

\* the worker threads start() can create, in the order it creates them
Workers == {1, 2}

Entities == {"c1"}

\* what task.callback does: there is none, or it raises
Callbacks == {"none", "raises"}

\* what generate_embedding does: a vector, nothing, an exception
Embeddings == {"vector", "nothing", "raises"}

\* f"{entity_type}:{entity_id}:{int(time.time()*1000)}", the clock in ms
TaskId(entity_type, entity_id, ms) == <<entity_type, entity_id, ms>>

\* the n-th task handed to queue_embedding_update
NewTask(n, entity_id, callback, ms) ==
    [task_id |-> TaskId("candidate", entity_id, ms), n |-> n,
     callback |-> callback]

\* success after the inner try: True only when an embedding came back
SuccessAlways(embedding) == TRUE

Success(embedding) == embedding = "vector"

\* get_task_status
GetTaskStatus(task_id) ==
    IF task_id \in DOMAIN emb.completed_tasks THEN "completed"
    ELSE IF task_id \in DOMAIN emb.pending_tasks THEN "pending"
    ELSE "unknown"

\* threads start() has created
Born == {w \in Workers : emb.workers[w].pc # "unborn"}

\* start(): nothing when already running, else a new worker thread
Start ==
    /\ emb.caller.pc = "idle"
    /\ emb.running \/ Born # Workers
    /\ emb' = IF emb.running THEN emb
              ELSE LET w == Cardinality(Born) + 1
                   IN  [emb EXCEPT !.running = TRUE,
                                   !.worker_thread = w,
                                   !.workers[w].pc = "loop"]
    /\ UNCHANGED <<served, queue>>

\* stop(): the flag is cleared, then the caller joins the latest worker
Stop ==
    /\ emb.caller.pc = "idle"
    /\ emb' = [emb EXCEPT
           !.running = FALSE,
           !.stopped = TRUE,
           !.caller.pc = IF emb.worker_thread = 0 THEN "idle" ELSE "join"]
    /\ UNCHANGED <<served, queue>>

\* a worker between taking a task and finishing with it
Busy(w) == emb.workers[w].pc \in {"generate", "record", "unpend", "callback"}

\* join(timeout=5) returns: the worker has exited, or the five seconds have
\* passed while it is still busy with a task (an idle worker polls the flag
\* every second)
Join ==
    /\ emb.caller.pc = "join"
    /\ \/ emb.workers[emb.worker_thread].pc = "exited"
       \/ Busy(emb.worker_thread)
    /\ emb' = [emb EXCEPT !.caller.pc = "idle"]
    /\ UNCHANGED <<served, queue>>

\* queue_embedding_update: the task id is made, the task is entered in
\* _pending_tasks; dt is the time that has passed since the clock was last
\* read
QueueTask(entity_id, callback, dt) ==
    /\ emb.caller.pc = "idle"
    /\ emb.enqueued < MaxTasks
    /\ now + dt <= MaxTime
    /\ now' = now + dt
    /\ LET task == NewTask(emb.enqueued + 1, entity_id, callback, now + dt)
       IN  emb' = [emb EXCEPT
               !.pending_tasks = With(@, task.task_id, task),
               !.caller.pc = "put",
               !.caller.task = <<task>>]
    /\ UNCHANGED <<candidates, persisted, jobs, endpoint, result, state,
                   nmut, tcache, th, queue>>

\* queue_embedding_update: self._queue.put(task); return task_id
QueuePut ==
    /\ emb.caller.pc = "put"
    /\ queue' = Append(queue, emb.caller.task[1])
    /\ emb' = [emb EXCEPT
           !.enqueued = @ + 1,
           !.issued = Append(@, emb.caller.task[1]),
           !.caller.pc = "idle",
           !.caller.task = <<>>]
    /\ UNCHANGED served

\* _process_queue: `while self._running:`
WorkerLoop(w) ==
    /\ emb.workers[w].pc = "loop"
    /\ emb' = [emb EXCEPT
           !.workers[w].pc = IF emb.running THEN "get" ELSE "exited"]
    /\ UNCHANGED <<served, queue>>

\* _process_queue: task = self._queue.get(timeout=1); `continue` on Empty
WorkerGet(w) ==
    /\ emb.workers[w].pc = "get"
    /\ emb' = IF queue = <<>>
              THEN [emb EXCEPT !.workers[w].pc = "loop"]
              ELSE [emb EXCEPT
                       !.workers[w].pc = "generate",
                       !.workers[w].task = <<Head(queue)>>,
                       !.workers[w].embedding = "",
                       !.workers[w].success = FALSE,
                       !.taken = Append(@, Head(queue).n)]
    /\ queue' = IF queue = <<>> THEN queue ELSE Tail(queue)
    /\ UNCHANGED served

\* _process_queue: the inner try around generate_embedding
WorkerGenerate(w, embedding) ==
    /\ emb.workers[w].pc = "generate"
    /\ emb' = [emb EXCEPT !.workers[w].embedding = embedding,
                          !.workers[w].success = Success(embedding),
                          !.workers[w].pc = "record"]
    /\ UNCHANGED <<served, queue>>

\* _process_queue: self._completed_tasks[task.task_id] = success
WorkerRecord(w) ==
    /\ emb.workers[w].pc = "record"
    /\ LET task == emb.workers[w].task[1]
       IN  emb' = [emb EXCEPT
               !.completed_tasks =
                   With(@, task.task_id, emb.workers[w].success),
               !.done = @ \cup {task.n},
               !.workers[w].pc = "unpend"]
    /\ UNCHANGED <<served, queue>>

\* _process_queue: `if task.task_id in self._pending_tasks: del ...`
WorkerUnpend(w) ==
    /\ emb.workers[w].pc = "unpend"
    /\ emb' = [emb EXCEPT
           !.pending_tasks = Without(@, {emb.workers[w].task[1].task_id}),
           !.workers[w].pc = "callback"]
    /\ UNCHANGED <<served, queue>>

\* _process_queue: the callback, an exception of it caught and logged;
\* task_done(); back to the head of the loop
WorkerCallback(w) ==
    /\ emb.workers[w].pc = "callback"
    /\ emb' = [emb EXCEPT
           !.workers[w].pc = "loop",
           !.workers[w].task = <<>>,
           !.workers[w].embedding = "",
           !.workers[w].success = FALSE]
    /\ UNCHANGED <<served, queue>>

Worker(w) ==
    \/ WorkerLoop(w)
    \/ WorkerGet(w)
    \/ \E e \in Embeddings : WorkerGenerate(w, e)
    \/ WorkerRecord(w)
    \/ WorkerUnpend(w)
    \/ WorkerCallback(w)

----------------------------------------------------------------------------
(* Candidate Store under concurrent callers                                *)
(* src/src/services/candidate_service.py: no operation takes a lock, so a  *)
(* call is a sequence of steps another call can run between                *)

\* everything a store call leaves alone
unshared == <<jobs, endpoint, result, queue, state, nmut, tcache, now, emb>>

\* the mutating calls the threads make: operation and argument
StoreCalls ==
    {<<"accept_job", "j1">>,
     <<"decline_jobs", <<"j2">>>>,
     <<"update_preferences", [NoPatch EXCEPT !.min_salary = <<200>>]>>}

\* the record after the in-memory mutation of accept_job, decline_jobs or
\* update_preferences
Mutated(c, op, arg) ==
    IF op = "accept_job" THEN [c EXCEPT !.accepted_job_id = arg]
    ELSE IF op = "decline_jobs"
         THEN [c EXCEPT !.declined_job_ids = DeclineAll(@, arg)]
         ELSE AssignedAll(c, arg)

\* a thread enters one of the mutating operations
StoreCall(t, cid, call) ==
    /\ th[t].pc = "idle"
    /\ th[t].calls < MaxOps
    /\ th' = [th EXCEPT ![t] = [IdleThread EXCEPT
                  !.pc = "mutate", !.op = call[1], !.key = cid,
                  !.arg = <<call[2]>>, !.calls = th[t].calls + 1]]
    /\ UNCHANGED <<candidates, persisted, unshared>>

\* get_candidate, `return False` when there is none, else the assignments to
\* the record the cache holds and self._candidates_cache[candidate.id] =
\* candidate
StoreMutate(t) ==
    /\ th[t].pc = "mutate"
    /\ IF ~Exists(th[t].key)
       THEN /\ th' = [th EXCEPT ![t].pc = "idle", ![t].ret = <<FALSE>>]
            /\ UNCHANGED candidates
       ELSE /\ candidates' = [candidates EXCEPT ![th[t].key] =
                                 Mutated(@, th[t].op, th[t].arg[1])]
            /\ th' = [th EXCEPT ![t].pc = "dump"]
    /\ UNCHANGED <<persisted, unshared>>

\* _save_candidates: [c.model_dump() for c in self._candidates_cache.values()]
StoreDump(t) ==
    /\ th[t].pc = "dump"
    /\ th' = [th EXCEPT ![t].entry = <<Saved(candidates)>>,
                        ![t].pc = "write"]
    /\ UNCHANGED <<candidates, persisted, unshared>>

\* _save_candidates: the list is written and the file closed; `return True`
StoreWrite(t) ==
    /\ th[t].pc = "write"
    /\ persisted' = th[t].entry[1]
    /\ th' = [th EXCEPT ![t].pc = "idle", ![t].entry = <<>>,
                        ![t].ret = <<TRUE>>]
    /\ UNCHANGED <<candidates, unshared>>

----------------------------------------------------------------------------
(* Inputs *)

C1Init ==
    Candidate("John", 180, <<K_dev>>, <<"remote", "hybrid">>, <<"tech">>,
              <<"SF">>, <<S_Py>>, <<>>, NoJob)

C2Init ==
    Candidate("Mike", 40, <<>>, <<"onsite">>, <<"health">>,
              <<"Chicago">>, <<S_Ja>>, <<"j2">>, NoJob)

C3New ==
    Candidate("New", 0, <<>>, <<>>, <<>>, <<>>, <<>>, <<>>, NoJob)

StoreInit == [k \in {"c1", "c2"} |-> IF k = "c1" THEN C1Init ELSE C2Init]

CandArgs == {"c1", "c2", UnknownCandidate}

Opt(S) == {<<>>} \cup {<<v>> : v \in S}

\* every subset of the six preference fields, with valid values
ValidPatches ==
    [min_salary : Opt({200}),
     preferred_titles : Opt({<<K_qa>>}),
     preferred_location_types : Opt({<<"onsite">>}),
     preferred_industries : Opt({<<"health">>}),
     preferred_locations : Opt({<<"NYC">>}),
     skills : Opt({<<S_Ja, S_Py>>})]

\* an unknown location type, after every subset of the fields assigned
\* before it; the fields after it are never read
RaisingPatches ==
    [min_salary : Opt({200}),
     preferred_titles : Opt({<<K_qa>>}),
     preferred_location_types : {<<<<"bogus">>>>},
     preferred_industries : {<<>>},
     preferred_locations : {<<>>},
     skills : {<<>>}]

Patches == ValidPatches \cup RaisingPatches

\* a call for an id that does not resolve returns before it reads the patch
PatchArgs(cid) == IF Exists(cid) THEN Patches ELSE {NoPatch}

DeclineArgs ==
    {<<"j1">>, <<"j1", "j1">>, <<"j2", "j1", "j1">>, <<UnknownJob>>}

AcceptArgs == {"j1", UnknownJob}

PersistArgs ==
    {NoPersist,
     [NoPersist EXCEPT !.preferred_location_types = <<<<"bogus">>>>],
     [NoPersist EXCEPT !.preferred_titles = <<<<K_qa>>>>,
                       !.preferred_location_types = <<<<"bogus">>>>],
     [NoPersist EXCEPT !.min_salary = <<200>>,
                       !.preferred_industries = <<<<"health">>>>,
                       !.preferred_location_types = <<<<"onsite">>>>],
     [NoPersist EXCEPT !.add_skill = <<S_Py>>]}

NumResultsArgs == (0 - 1)..MaxResults

Distances == {25}

NeighbourIds == {jobs[i].id : i \in 1..Len(jobs)} \cup {UnknownJob}

\* nearest neighbours are distinct datapoints
NeighbourLists ==
    {s \in UNION {[1..n -> [id : NeighbourIds, distance : Distances]] :
                     n \in 0..MaxNeighbours} :
        \A i, j \in 1..Len(s) : i # j => s[i].id # s[j].id}

Throws == [called |-> FALSE, throws |-> TRUE, neighbours |-> <<>>]

Returns(n) == [called |-> FALSE, throws |-> FALSE, neighbours |-> n]

\* what the injected vector service may do when it is called
VectorOutcomes ==
    IF endpoint THEN {Throws} \cup {Returns(n) : n \in NeighbourLists}
    ELSE {NoVector}

----------------------------------------------------------------------------
(* The Candidate Store on its own: every operation, with every subset of   *)
(* the preference fields given                                             *)

UpdateTargets == {"c1", UnknownCandidate}

InitStore ==
    /\ candidates = StoreInit
    /\ persisted = StoreInit
    /\ jobs = <<J1, J2>>
    /\ endpoint = FALSE
    /\ result = NoResult
    /\ queue = <<>>
    /\ state = NoState
    /\ OverlayInit
    /\ nmut = 0

NextStore ==
    \/ \E cid \in UpdateTargets : \E p \in PatchArgs(cid) :
           UpdatePreferences(cid, p)
    \/ \E cid \in CandArgs, jid \in AcceptArgs : AcceptJob(cid, jid)
    \/ \E cid \in CandArgs, jids \in DeclineArgs : DeclineJobs(cid, jids)
    \/ \E cid \in CandArgs : GetDeclinedJobIds(cid)
    \/ \E cid \in {"c2", "c3"} : UpdateCandidate(cid, C3New)
    \/ \E cid \in UpdateTargets, ch \in PersistArgs :
           PersistPreferenceChanges(cid, ch)

SpecStore == InitStore /\ [][NextStore]_vars

----------------------------------------------------------------------------
(* The system: store operations and searches interleaved, on a few inputs  *)
(* of each operation                                                       *)

SomePatches ==
    {NoPatch,
     [NoPatch EXCEPT !.min_salary = <<200>>],
     [NoPatch EXCEPT !.min_salary = <<200>>,
                     !.preferred_location_types = <<<<"bogus">>>>]}

SomeChanges == {NoChanges, [NoChanges EXCEPT !.min_salary = <<200>>]}

SomeOutcomes ==
    IF endpoint
    THEN {Throws, Returns(<<[id |-> "j1", distance |-> 25]>>)}
    ELSE {NoVector}

Init ==
    /\ candidates = StoreInit
    /\ persisted = StoreInit
    /\ jobs = <<J1, J2, J3>>
    /\ endpoint \in BOOLEAN
    /\ result = NoResult
    /\ queue = <<>>
    /\ state = NoState
    /\ OverlayInit
    /\ nmut = 0

Next ==
    \/ \E cid \in UpdateTargets : \E p \in PatchArgs(cid) \cap SomePatches :
           UpdatePreferences(cid, p)
    \/ \E cid \in UpdateTargets : AcceptJob(cid, "j1")
    \/ \E cid \in UpdateTargets : DeclineJobs(cid, <<"j1">>)
    \/ \E cid \in CandArgs : GetDeclinedJobIds(cid)
    \/ UpdateCandidate("c3", C3New)
    \/ \E cid \in UpdateTargets :
           PersistPreferenceChanges(cid,
               [NoPersist EXCEPT !.min_salary = <<200>>])
    \/ \E cid \in CandArgs, v \in SomeOutcomes :
           SearchJobsForCandidate(cid, MaxResults, v)
    \/ \E cid \in CandArgs, v \in SomeOutcomes, ch \in SomeChanges :
           SearchWithUpdatedPreferences(cid, ch, MaxResults, v)

Spec == Init /\ [][Next]_vars

----------------------------------------------------------------------------
(* The Match Orchestrator on its own: one search on each drawn store,      *)
(* catalog and vector-service behaviour.  A search writes nothing, so the  *)
(* searches of one behaviour are independent of each other.                *)

Profiles ==
    {Candidate("John", sal, titles, lts, <<"tech">>, <<"SF">>, <<S_Py>>,
               declined, NoJob) :
        sal \in {0, 180},
        titles \in {<<>>, <<K_dev>>},
        lts \in {<<>>, <<"remote", "hybrid">>},
        declined \in {<<>>, <<"j1">>}}

\* every catalog over the pool, in every insertion order
Catalogs ==
    {s \in UNION {[1..n -> JobPool] : n \in 0..Cardinality(JobPool)} :
        \A i, j \in 1..Len(s) : i # j => s[i].id # s[j].id}

Changes ==
    [min_salary : Opt({200}),
     preferred_titles : Opt({<<K_qa>>, <<K_DE>>}),
     preferred_location_types : Opt({<<"onsite">>}),
     preferred_industries : {<<>>},
     skills : {<<>>}]

InitSearch ==
    /\ \E c \in Profiles :
           candidates = [k \in {"c1", "c2"} |-> IF k = "c1" THEN c ELSE C2Init]
    /\ persisted = candidates
    /\ jobs \in Catalogs
    /\ endpoint \in BOOLEAN
    /\ result = NoResult
    /\ queue = <<>>
    /\ state = NoState
    /\ OverlayInit
    /\ nmut = 0

SearchArgs == {"c1", UnknownCandidate}

OneSearchJobs ==
    /\ result = NoResult
    /\ \E cid \in SearchArgs, n \in NumResultsArgs, v \in VectorOutcomes :
           SearchJobsForCandidate(cid, n, v)

OneSearchUpdated ==
    /\ result = NoResult
    /\ \E cid \in SearchArgs, ch \in Changes, n \in NumResultsArgs,
             v \in VectorOutcomes :
           SearchWithUpdatedPreferences(cid, ch, n, v)

OneSearchText ==
    /\ result = NoResult
    /\ \E n \in NumResultsArgs, v \in VectorOutcomes : SearchJobsByText(n, v)

NextSearch == OneSearchJobs \/ OneSearchUpdated \/ OneSearchText

SpecSearch == InitSearch /\ [][NextSearch]_vars

----------------------------------------------------------------------------
(* Accepting and declining: the agent tools and the store operations they  *)
(* call, for job ids the catalog holds and for one it does not             *)

SomeDeclines == {<<"j1">>, <<"j2", UnknownJob>>, <<UnknownJob>>}

InitTools ==
    /\ candidates = StoreInit
    /\ persisted = StoreInit
    /\ jobs = <<J1, J2>>
    /\ endpoint = FALSE
    /\ result = NoResult
    /\ queue = <<>>
    /\ state = NoState
    /\ OverlayInit
    /\ nmut = 0

NextTools ==
    \/ \E cid \in UpdateTargets, jid \in AcceptArgs : AcceptJob(cid, jid)
    \/ \E cid \in UpdateTargets, jids \in SomeDeclines : DeclineJobs(cid, jids)
    \/ \E cid \in UpdateTargets, jid \in AcceptArgs : ToolAcceptJob(cid, jid)
    \/ \E cid \in UpdateTargets, jids \in SomeDeclines :
           ToolDeclineJobs(cid, jids)
    \/ \E cid \in UpdateTargets : GetDeclinedJobIds(cid)

SpecTools == InitTools /\ [][NextTools]_vars

----------------------------------------------------------------------------
(* The TTL cache under concurrent calls                                    *)

InitCache ==
    /\ candidates = StoreInit
    /\ persisted = StoreInit
    /\ jobs = <<J1, J2>>
    /\ endpoint = FALSE
    /\ result = NoResult
    /\ queue = <<>>
    /\ state = NoState
    /\ OverlayInit
    /\ nmut = 0

NextCache ==
    \/ \E t \in Threads, k \in Keys,
          op \in {"get", "delete", "clear", "cleanup_expired"} :
           Call(t, op, k)
    \/ \E t \in Threads, k \in Keys, ttl \in Ttls : CallSet(t, k, ttl)
    \/ \E t \in Threads : Acquire(t)
    \/ \E t \in Threads : GetRead(t)
    \/ \E t \in Threads : GetCheck(t)
    \/ \E t \in Threads : GetDel(t)
    \/ \E t \in Threads : MissLoad(t)
    \/ \E t \in Threads : MissStore(t)
    \/ \E t \in Threads : HitLoad(t)
    \/ \E t \in Threads : HitStore(t)
    \/ \E t \in Threads : SetStore(t)
    \/ \E t \in Threads : DeleteKey(t)
    \/ \E t \in Threads : ClearAll(t)
    \/ \E t \in Threads : CleanupScan(t)
    \/ \E t \in Threads : CleanupDel(t)
    \/ \E t \in Threads : Release(t)
    \/ Tick

SpecCache == InitCache /\ [][NextCache]_vars

----------------------------------------------------------------------------
(* The scoring of the fallback paths: one search per behaviour, over       *)
(* candidates of every skill overlap with the jobs                         *)

ScoreProfiles ==
    {Candidate("John", sal, titles, <<>>, inds, <<"SF">>, skills, <<>>,
               NoJob) :
        sal \in {0, 180},
        titles \in {<<>>, <<K_dev>>},
        inds \in {<<>>, <<"tech">>},
        skills \in {<<>>, <<S_Py>>, <<S_Py, S_De>>}}

ScoreCatalogs == {<<J1>>, <<J3, J1>>, <<J1, J2>>}

InitScore ==
    /\ \E c \in ScoreProfiles :
           candidates = [k \in {"c1", "c2"} |-> IF k = "c1" THEN c ELSE C2Init]
    /\ persisted = candidates
    /\ jobs \in ScoreCatalogs
    /\ endpoint \in BOOLEAN
    /\ result = NoResult
    /\ queue = <<>>
    /\ state = NoState
    /\ OverlayInit
    /\ nmut = 0

SpecScore == InitScore /\ [][NextSearch]_vars

----------------------------------------------------------------------------
(* Candidate creations and streaming chat requests                         *)

\* ids uuid.uuid4().hex[:8] can produce
GeneratedIds == {"c3", "c4"}

ChatIds == {"c1"} \cup GeneratedIds

InitChat ==
    /\ candidates = StoreInit
    /\ persisted = StoreInit
    /\ jobs = <<J1, J2>>
    /\ endpoint = FALSE
    /\ result = NoResult
    /\ queue = <<>>
    /\ state = NoState
    /\ OverlayInit
    /\ nmut = 0

NextChat ==
    \/ \E cid \in ChatIds : ChatStreamExists(cid)
    \* POST /candidates: the id is generated, the record stored and flushed
    \/ \E id \in GeneratedIds : UpdateCandidate(id, C3New)
    \/ Tick

SpecChat == InitChat /\ [][NextChat]_vars

----------------------------------------------------------------------------
(* The background embedding service: its caller and its workers            *)

InitEmb ==
    /\ candidates = StoreInit
    /\ persisted = StoreInit
    /\ jobs = <<J1, J2>>
    /\ endpoint = FALSE
    /\ result = NoResult
    /\ queue = <<>>
    /\ state = NoState
    /\ OverlayInit
    /\ nmut = 0

NextEmb ==
    \/ Start
    \/ Stop
    \/ Join
    \/ \E e \in Entities, cb \in Callbacks, dt \in {0, 1} :
           QueueTask(e, cb, dt)
    \/ QueuePut
    \/ \E w \in Workers : WorkerLoop(w)
    \/ \E w \in Workers : WorkerGet(w)
    \/ \E w \in Workers, e \in Embeddings : WorkerGenerate(w, e)
    \/ \E w \in Workers : WorkerRecord(w)
    \/ \E w \in Workers : WorkerUnpend(w)
    \/ \E w \in Workers : WorkerCallback(w)

SpecEmb == InitEmb /\ [][NextEmb]_vars

\* a thread that can run does run; join returns
SpecEmbFair ==
    /\ SpecEmb
    /\ \A w \in Workers : WF_vars(Worker(w))
    /\ WF_vars(Join)
    /\ WF_vars(QueuePut)

----------------------------------------------------------------------------
(* Concurrent mutations of the Candidate Store                             *)

InitThreads ==
    /\ candidates = StoreInit
    /\ persisted = StoreInit
    /\ jobs = <<J1, J2>>
    /\ endpoint = FALSE
    /\ result = NoResult
    /\ queue = <<>>
    /\ state = NoState
    /\ OverlayInit
    /\ nmut = 0

NextThreads ==
    \/ \E t \in Threads, cid \in CandArgs, call \in StoreCalls :
           StoreCall(t, cid, call)
    \/ \E t \in Threads : StoreMutate(t)
    \/ \E t \in Threads : StoreDump(t)
    \/ \E t \in Threads : StoreWrite(t)

SpecThreads == InitThreads /\ [][NextThreads]_vars

----------------------------------------------------------------------------
(* Properties of the Candidate Store *)

Occurrences(x, xs) == Cardinality({i \in 1..Len(xs) : xs[i] = x})

\* what a step made for an id that is not in the store must satisfy
C6_NotFoundStep ==
    (result'.cid \notin DOMAIN candidates
     /\ result'.op \notin {"none", "update_candidate"})
    => /\ UNCHANGED <<candidates, persisted>>
       /\ ~result'.raised
       /\ result'.ret = FALSE
       /\ result'.fields = <<>>
       /\ result'.op = "get_declined_job_ids" => result'.job_ids = <<>>
       /\ (result'.op \in {"search_jobs_for_candidate",
                           "search_with_updated_preferences"})
              => /\ result'.error
                 /\ result'.matches = <<>>
                 /\ ~result'.vector.called
                 /\ ~result'.soft
                 /\ result'.alternatives = <<>>

\* C6: a call for a candidate id that is not in the store reports not-found
\* as a value and changes nothing: a search returns an error with no
\* matches, no vector call and no relaxation, update_preferences returns
\* (False, []), accept_job and decline_jobs return False,
\* get_declined_job_ids returns an empty list, and the in-memory records and
\* the persisted collection stay as they were.
C6_NotFoundChangesNothing == [][C6_NotFoundStep]_vars

\* decline_jobs was called for an unknown id while an in-memory change was
\* waiting to be flushed
C6_Witness ==
    /\ result.op = "decline_jobs"
    /\ result.cid = UnknownCandidate
    /\ persisted # candidates

\* C7: declined_job_ids holds each job id at most once, in memory and in the
\* persisted collection, and after decline_jobs every id of the call occurs
\* in it exactly once.
C7_DeclinedNoDuplicates ==
    /\ \A cid \in DOMAIN candidates :
           NoDup(candidates[cid].declined_job_ids)
    /\ \A cid \in DOMAIN persisted : NoDup(persisted[cid].declined_job_ids)
    /\ (result.op = "decline_jobs" /\ result.ret)
           => \A i \in 1..Len(result.job_ids) :
                  Occurrences(result.job_ids[i],
                              candidates[result.cid].declined_job_ids) = 1

\* a call that names an id declined before and another id twice
C7_Witness ==
    /\ result.op = "decline_jobs"
    /\ result.cid = "c2"
    /\ result.job_ids = <<"j2", "j1", "j1">>
    /\ candidates["c2"].name = "Mike"
    /\ candidates["c2"].declined_job_ids = <<"j2", "j1">>

\* a step that is a successful update_preferences call
UpdateStep == result'.op = "update_preferences" /\ result'.ret

FrameOf(before, after) ==
    /\ DOMAIN after = DOMAIN before
    /\ \A cid \in DOMAIN before \ {result'.cid} : after[cid] = before[cid]
    /\ \A k \in DOMAIN before[result'.cid] :
           after[result'.cid][k] =
               IF k \in DOMAIN result'.patch /\ result'.patch[k] # <<>>
               THEN result'.patch[k][1]
               ELSE before[result'.cid][k]

C8_FrameInMemory == [][UpdateStep => FrameOf(candidates, candidates')]_vars

\* C8: update_preferences with valid values gives each provided field its
\* new value and leaves every other field of that candidate and every other
\* candidate unchanged, in memory and in the persisted collection.
C8_OnlyProvidedFieldsChange ==
    [][UpdateStep => /\ FrameOf(candidates, candidates')
                     /\ FrameOf(persisted, persisted')]_vars

\* a step that is update_preferences for an existing candidate, no field given
EmptyUpdateStep ==
    /\ result'.op = "update_preferences"
    /\ result'.cid \in DOMAIN candidates
    /\ result'.patch = NoPatch

\* a step that is persist_preference_changes for an existing candidate with
\* an empty dictionary
EmptyPersistStep ==
    /\ result'.op = "persist_preference_changes"
    /\ result'.cid \in DOMAIN candidates
    /\ result'.persist = NoPersist

\* C9 as stated: update_preferences with no field given returns a false
\* success with no fields changed and leaves the stored state as it was.
C9_EmptyUpdateReturnsFalse ==
    [][EmptyUpdateStep => /\ result'.ret = FALSE
                          /\ result'.fields = <<>>
                          /\ UNCHANGED <<candidates, persisted>>]_vars

\* C9, amended: update_preferences with no field given returns success with
\* an empty list of updated fields, leaves the in-memory records as they
\* were and rewrites the persisted collection from them; it is
\* persist_preference_changes that returns False on an empty change set and
\* touches neither.
C9_EmptyUpdateSucceedsAndFlushes ==
    [][/\ EmptyUpdateStep => /\ result'.ret = TRUE
                             /\ result'.fields = <<>>
                             /\ ~result'.raised
                             /\ candidates' = candidates
                             /\ persisted' = candidates
       /\ EmptyPersistStep => /\ result'.ret = FALSE
                              /\ UNCHANGED <<candidates, persisted>>]_vars

\* update_preferences was called for an existing candidate with no field
C9_Witness ==
    /\ result.op = "update_preferences"
    /\ result.cid = "c1"
    /\ result.patch = NoPatch
    /\ result.ret
    /\ nmut > 0

\* C10: after every call the persisted collection equals the in-memory
\* records.
C10_PersistedEqualsMemory == persisted = candidates

\* a dictionary of fields that names a location type that does not exist
\* together with at least one other field
InvalidLocationWith(d) ==
    /\ Provided(d, "preferred_location_types")
    /\ ~ValidLocationTypes(d.preferred_location_types[1])
    /\ \E k \in DOMAIN d \ {"preferred_location_types"} : Provided(d, k)

\* a step that is update_preferences for an existing candidate with such fields
InvalidUpdateStep ==
    /\ result'.op = "update_preferences"
    /\ result'.cid \in DOMAIN candidates
    /\ InvalidLocationWith(result'.patch)

\* a step that is persist_preference_changes for an existing candidate with
\* such a dictionary
InvalidPersistStep ==
    /\ result'.op = "persist_preference_changes"
    /\ result'.cid \in DOMAIN candidates
    /\ InvalidLocationWith(result'.persist)

\* persist_preference_changes skips the invalid location types, applies the
\* other entries and flushes
PersistSkipsInvalidLocation ==
    InvalidPersistStep =>
        LET before == candidates[result'.cid]
            after == candidates'[result'.cid]
            ch == result'.persist
        IN  /\ ~result'.raised
            /\ result'.ret
            /\ after.preferred_location_types = before.preferred_location_types
            /\ Provided(ch, "min_salary") => after.min_salary = ch.min_salary[1]
            /\ Provided(ch, "preferred_titles") =>
                   ListSet(after.preferred_titles) =
                       ListSet(before.preferred_titles)
                           \cup ListSet(ch.preferred_titles[1])
            /\ persisted' = candidates'

\* update_preferences skips the invalid location types, applies the other
\* fields and flushes
UpdateSkipsInvalidLocation ==
    InvalidUpdateStep =>
        LET before == candidates[result'.cid]
            after == candidates'[result'.cid]
            p == result'.patch
        IN  /\ ~result'.raised
            /\ result'.ret
            /\ after.preferred_location_types = before.preferred_location_types
            /\ \A k \in DOMAIN p \ {"preferred_location_types"} :
                   Provided(p, k) => after[k] = p[k][1]
            /\ persisted' = candidates'

C11_PersistHalf == [][PersistSkipsInvalidLocation]_vars

\* C11: an update that names an unknown location type together with other
\* valid fields is a partial success at both entry points
\* (CandidateService.update_preferences and persist_preference_changes): the
\* call does not raise, preferred_location_types keeps its value, and the
\* other provided fields are applied and persisted.
C11_InvalidLocationIsPartialSuccess ==
    [][PersistSkipsInvalidLocation /\ UpdateSkipsInvalidLocation]_vars

----------------------------------------------------------------------------
(* Properties of the searches *)

IsSearch ==
    result.op \in {"search_jobs_for_candidate",
                   "search_with_updated_preferences"}

\* the candidate the last call was made for
Caller == candidates[result.cid]

MatchedJob(i) == GetJob(result.matches[i].id)

VectorSucceeded == result.vector.called /\ ~result.vector.throws

DeclinedInCatalog ==
    \E i \in 1..Len(Caller.declined_job_ids) :
        JobExists(Caller.declined_job_ids[i])

\* C1: the matches of the fallback path of search_jobs_for_candidate hold no
\* job whose salary_max is below the candidate's min_salary, no job whose
\* location_type is outside the candidate's non-empty
\* preferred_location_types, and no job the candidate has declined.
C1_FallbackHardFilters ==
    (result.op = "search_jobs_for_candidate" /\ result.search_type = "fallback")
    => \A i \in 1..Len(result.matches) :
           /\ ~(MatchedJob(i).salary_max < Caller.min_salary)
           /\ Caller.preferred_location_types # <<>>
                  => InList(MatchedJob(i).location_type,
                            Caller.preferred_location_types)
           /\ ~InList(MatchedJob(i).id, Caller.declined_job_ids)

\* a fallback search that returns a job, rejects another on the salary or
\* the location test and skips a declined job of the catalog
C1_Witness ==
    /\ result.op = "search_jobs_for_candidate"
    /\ result.search_type = "fallback"
    /\ result.matches # <<>>
    /\ result.filtered_out > 0
    /\ Caller.min_salary > 0
    /\ \E i \in 1..Len(jobs) : jobs[i].salary_max < Caller.min_salary
    /\ DeclinedInCatalog

\* the effective value of a preference, read off the call's arguments
EffectiveOfCall(k) ==
    IF result.changes[k] # <<>> THEN result.changes[k][1] ELSE Caller[k]

\* C2: every match of search_with_updated_preferences, on the
\* vector_augmented and on the fallback_augmented path, passes the three
\* strict filters taken with the effective values (the override when the key
\* is in preference_changes, the stored value otherwise): its location_type
\* is in the non-empty required set, its salary_max is at least the
\* effective min_salary, and its title contains a required keyword,
\* case-insensitively, when any is required.
C2_PostFiltersUseEffectiveValues ==
    (result.op = "search_with_updated_preferences"
     /\ result.search_type \in {"vector_augmented", "fallback_augmented"})
    => \A i \in 1..Len(result.matches) :
           /\ EffectiveOfCall("preferred_location_types") # <<>>
                  => InList(MatchedJob(i).location_type,
                            EffectiveOfCall("preferred_location_types"))
           /\ MatchedJob(i).salary_max >= EffectiveOfCall("min_salary")
           /\ EffectiveOfCall("preferred_titles") # <<>>
                  => \E k \in 1..Len(EffectiveOfCall("preferred_titles")) :
                         Contains(
                             ToLower(EffectiveOfCall("preferred_titles")[k]),
                             ToLower(MatchedJob(i).title))

\* an override of 200 over a stored 180, on the vector path: a neighbour
\* that the stored value admits is filtered out, another is returned
C2_Witness ==
    /\ result.op = "search_with_updated_preferences"
    /\ result.search_type = "vector_augmented"
    /\ result.changes.min_salary = <<200>>
    /\ Caller.min_salary = 180
    /\ result.matches # <<>>
    /\ result.filtered_out > 0
    /\ \E i \in 1..Len(result.vector.neighbours) :
           LET id == result.vector.neighbours[i].id
           IN  /\ JobExists(id)
               /\ GetJob(id).salary_max >= 180
               /\ GetJob(id).salary_max < 200

\* C3: when the strict search of search_with_updated_preferences finds
\* nothing, the soft-match relaxation has run and the result carries
\* alternatives, suggestions and relaxed_criteria; no alternative is a job
\* the candidate has declined.
C3_ZeroMatchesRelaxes ==
    (result.op = "search_with_updated_preferences" /\ ~result.error)
    => /\ result.total_found = 0 => (~result.raised /\ result.soft)
       /\ \A i \in 1..Len(result.alternatives) :
              ~InList(result.alternatives[i].id, Caller.declined_job_ids)

\* C4: on the vector paths no returned match is a job the candidate has
\* declined, whatever neighbours the gateway returns.
C4_VectorPathsExcludeDeclined ==
    (IsSearch /\ result.search_type \in {"vector", "vector_augmented"})
    => \A i \in 1..Len(result.matches) :
           ~InList(result.matches[i].id, Caller.declined_job_ids)

\* C5: for an existing candidate a search neither returns an error nor
\* raises; search_type is vector / vector_augmented exactly when the vector
\* call was made and succeeded, and otherwise the result is that of the
\* fallback scoring, named fallback / fallback_augmented.
C5_VectorFailureFallsBack ==
    (IsSearch /\ Exists(result.cid))
    => /\ ~result.error
       /\ ~result.raised
       /\ result.search_type =
              IF result.op = "search_jobs_for_candidate"
              THEN (IF VectorSucceeded THEN "vector" ELSE "fallback")
              ELSE (IF VectorSucceeded THEN "vector_augmented"
                    ELSE "fallback_augmented")
       /\ ~VectorSucceeded =>
              result.matches =
                  IF result.op = "search_jobs_for_candidate"
                  THEN FallbackSearch(result.cid, Caller,
                                      result.num_results).matches
                  ELSE FallbackSearchAugmented(result.cid, Caller,
                           result.changes, result.num_results).matches

\* the relaxation ran for the last call: an existing candidate, a strict
\* search of search_with_updated_preferences that found nothing
Relaxing ==
    /\ result.op = "search_with_updated_preferences"
    /\ ~result.error
    /\ result.total_found = 0

\* the jobs each relaxation finds for the last call, from its arguments
FoundBy(tag) ==
    LET min_salary == EffectiveOfCall("min_salary")
        types == EffectiveOfCall("preferred_location_types")
        titles == EffectiveOfCall("preferred_titles")
    IN  CASE tag = "location" ->
                 IF titles # <<>>
                 THEN LocationRelaxedJobs(Caller, min_salary, titles)
                 ELSE <<>>
          [] tag = "title" ->
                 IF types # <<>>
                 THEN TitleRelaxedJobs(Caller, min_salary, types)
                 ELSE <<>>
          [] tag = "skill_based" ->
                 IF titles # <<>> THEN SkillBasedJobs(Caller, titles)
                 ELSE <<>>
          [] tag = "salary" -> SalaryJobs(Caller, titles)

StrategyOrder == <<"location", "title", "skill_based", "salary">>

CriteriaKey(tag) ==
    CASE tag = "location" -> "location_relaxed"
      [] tag = "title" -> "title_relaxed"
      [] tag = "skill_based" -> "skill_based"
      [] tag = "salary" -> "any_salary"

\* the place in the order of the first relaxation that finds a job, 0 if none
FirstFound ==
    IF \E n \in 1..4 : FoundBy(StrategyOrder[n]) # <<>>
    THEN CHOOSE n \in 1..4 :
             /\ FoundBy(StrategyOrder[n]) # <<>>
             /\ \A k \in 1..(n - 1) : FoundBy(StrategyOrder[k]) = <<>>
    ELSE 0

\* the result relaxes the dimension of the n-th strategy and no other
RelaxesOnly(n) ==
    /\ ~result.raised
    /\ result.alternatives # <<>>
    /\ \A i \in 1..Len(result.alternatives) :
           result.alternatives[i].relaxed = StrategyOrder[n]
    /\ result.relaxed_criteria =
           <<Relaxed(CriteriaKey(StrategyOrder[n]),
                     Len(FoundBy(StrategyOrder[n])))>>

\* the first three strategies do relax exactly their own dimension
C12_FirstThreeStrategies ==
    (Relaxing /\ result.num_results >= 1 /\ FirstFound \in 1..3)
    => RelaxesOnly(FirstFound)

\* C12: for num_results >= 1 the relaxation relaxes exactly one dimension:
\* the strategies are tried in the order location, title, skill_based,
\* salary and the first that finds a job is the only one that contributes,
\* so every alternative carries the tag of that strategy and
\* relaxed_criteria holds exactly that strategy's entry.
C12_RelaxesExactlyOneDimension ==
    (Relaxing /\ result.num_results >= 1 /\ FirstFound # 0)
    => RelaxesOnly(FirstFound)

\* C13: whenever the relaxation returns at least one alternative (here for
\* num_results >= 1), the strategy that fired contributed at most
\* num_results alternatives, at least one suggestion and one
\* relaxed_criteria entry whose count is at least the number of
\* alternatives, on the vector and on the fallback strict path.
C13_FiredStrategyContributesAll ==
    (Relaxing /\ result.num_results >= 1 /\ result.alternatives # <<>>)
    => /\ Len(result.alternatives) <= result.num_results
       /\ Len(result.suggestions) >= 1
       /\ Len(result.relaxed_criteria) = 1
       /\ result.relaxed_criteria[1].count >= Len(result.alternatives)

\* no job of the catalog meets the effective salary floor
NoneMeetsFloor ==
    /\ EffectiveOfCall("min_salary") > 0
    /\ \A i \in 1..Len(jobs) :
           jobs[i].salary_max < EffectiveOfCall("min_salary")

\* C14: when no job meets the effective salary floor and strategies 1-3
\* find nothing, search_with_updated_preferences with num_results >= 1
\* returns total_found = 0 and, if a non-declined job (title-matching, when
\* titles are required) exists, the num_results such jobs of highest
\* salary_max as alternatives tagged salary, in non-increasing salary_max
\* order, with a suggestion citing the highest salary_max.
C14_SalaryRelaxation ==
    (/\ result.op = "search_with_updated_preferences"
     /\ ~result.error
     /\ result.num_results >= 1
     /\ NoneMeetsFloor
     /\ FirstFound = 4)
    => /\ ~result.raised
       /\ result.total_found = 0
       /\ result.alternatives =
              Alternatives(FoundBy("salary"), "salary", result.num_results)
       /\ \A i \in 1..(Len(result.alternatives) - 1) :
              GetJob(result.alternatives[i].id).salary_max >=
                  GetJob(result.alternatives[i + 1].id).salary_max
       /\ \E i \in 1..Len(result.suggestions) :
              result.suggestions[i] =
                  Suggestion("salary", FoundBy("salary")[1].salary_max)

\* the place of a job in the catalog
CatalogIndex(id) == CHOOSE k \in 1..Len(jobs) : jobs[k].id = id

\* the non-declined jobs that pass the salary and the location filter of the
\* fallback search, as places in the catalog
Eligible ==
    {k \in 1..Len(jobs) :
        /\ ~InList(jobs[k].id, Caller.declined_job_ids)
        /\ ~(Caller.min_salary > 0 /\ jobs[k].salary_max < Caller.min_salary)
        /\ (Caller.preferred_location_types # <<>>
               => InList(jobs[k].location_type,
                         Caller.preferred_location_types))}

\* job a is listed before job b: a higher score, or the same score and an
\* earlier place in the catalog
RankedBefore(a, b) ==
    \/ FallbackScore2(Caller, jobs[a]) > FallbackScore2(Caller, jobs[b])
    \/ /\ FallbackScore2(Caller, jobs[a]) = FallbackScore2(Caller, jobs[b])
       /\ a < b

MatchedPlaces == {CatalogIndex(result.matches[i].id) :
                     i \in 1..Len(result.matches)}

FallbackCall ==
    /\ result.op = "search_jobs_for_candidate"
    /\ result.search_type = "fallback"

\* C15: the fallback search returns exactly the best eligible jobs (for a
\* count num_results >= 0): all eligible jobs when there are at most
\* num_results of them, otherwise the num_results of highest score, in
\* descending score order with ties in catalog insertion order;
\* total_found is the number of matches.
C15_FallbackReturnsBestEligible ==
    (FallbackCall /\ result.num_results >= 0)
    => /\ MatchedPlaces \subseteq Eligible
       /\ Cardinality(MatchedPlaces) = Len(result.matches)
       /\ Len(result.matches) =
              IF Cardinality(Eligible) <= result.num_results
              THEN Cardinality(Eligible) ELSE result.num_results
       /\ \A i, j \in 1..Len(result.matches) :
              i < j => RankedBefore(CatalogIndex(result.matches[i].id),
                                    CatalogIndex(result.matches[j].id))
       /\ \A a \in MatchedPlaces : \A b \in Eligible \ MatchedPlaces :
              RankedBefore(a, b)
       /\ result.total_found = Len(result.matches)

\* the scenario, with a third job: the onsite job comes first in the
\* catalog and is excluded, two eligible jobs tie, one result is asked for
\* and the earlier of the two is returned
C15_Witness ==
    /\ FallbackCall
    /\ result.num_results = 1
    /\ Caller.min_salary = 0
    /\ Caller.preferred_location_types = <<"remote", "hybrid">>
    /\ Len(jobs) = 3
    /\ jobs[1].id = "j2"
    /\ Eligible = {2, 3}
    /\ FallbackScore2(Caller, jobs[2]) = FallbackScore2(Caller, jobs[3])
    /\ result.matches # <<>>
    /\ result.matches[1].id = jobs[2].id
    /\ result.total_found = 1

FallbackPath ==
    /\ IsSearch
    /\ result.search_type \in {"fallback", "fallback_augmented"}

\* C20: the match_score of every match of the fallback and the
\* fallback_augmented path lies in [0, 1] (here in hundredths), whatever the
\* candidate, the jobs, the skill overlap and the preference overrides.
C20_FallbackScoreInUnitInterval ==
    FallbackPath
    => \A i \in 1..Len(result.matches) :
           /\ result.matches[i].match_score >= 0
           /\ result.matches[i].match_score <= 100

\* a match whose raw score is above 10 and whose match_score is 1
C20_Witness ==
    /\ result.op = "search_with_updated_preferences"
    /\ result.search_type = "fallback_augmented"
    /\ \E i \in 1..Len(result.matches) :
           /\ AugmentedScore2(Caller, result.changes, MatchedJob(i)) > 20
           /\ result.matches[i].match_score = 100

\* a step that is search_with_updated_preferences for an existing candidate
UpdatedSearchStep ==
    /\ result'.op = "search_with_updated_preferences"
    /\ ~result'.error

\* C16: each call of search_with_updated_preferences for an existing
\* candidate puts one embedding-refresh task for that candidate on the
\* async embedding queue.
C16_SearchEnqueuesEmbeddingTask ==
    [][UpdatedSearchStep =>
           queue' = Append(queue, EmbeddingTask(result'.cid))]_vars

\* the last call is search_jobs_for_candidate for an existing candidate
PlainSearch ==
    /\ result.op = "search_jobs_for_candidate"
    /\ ~result.error

\* the search reflects the record r: the criteria are built from it and the
\* fallback filters use its values
SearchReflects(r) ==
    /\ result.criteria = BuildPreferenceCriteria(r)
    /\ result.search_type = "fallback" =>
           /\ result.matches =
                  FallbackSearch(result.cid, r, result.num_results).matches
           /\ result.filtered_out =
                  FallbackSearch(result.cid, r, result.num_results).filtered_out

\* the search reflects the in-memory record
C17_ReflectsMemory == PlainSearch => SearchReflects(candidates[result.cid])

\* C17: a search reflects the latest persisted preferences: the preference
\* criteria built for search_jobs_for_candidate, and the salary and
\* location values its filters use, are those of the most recently
\* completed update of the candidate.
C17_SearchReflectsLatestPersisted ==
    PlainSearch => SearchReflects(persisted[result.cid])

\* a step that is an accept or a decline, in the store or at the tool
\* boundary, for an existing candidate and a job id the catalog does not hold
UnknownJobStep ==
    /\ result'.op \in {"accept_job", "decline_jobs",
                       "tool_accept_job", "tool_decline_jobs"}
    /\ result'.cid \in DOMAIN candidates
    /\ \E i \in 1..Len(result'.job_ids) : ~JobExists(result'.job_ids[i])

\* the step reports a failure and records nothing for the candidate
NotFoundNotRecorded ==
    /\ ~result'.ret
    /\ result'.op \in {"tool_accept_job", "tool_decline_jobs"}
           => result'.error
    /\ candidates'[result'.cid].accepted_job_id =
           candidates[result'.cid].accepted_job_id
    /\ candidates'[result'.cid].declined_job_ids =
           candidates[result'.cid].declined_job_ids
    /\ persisted' = persisted

\* the accept_job tool does look the job up
C18_ToolAcceptChecksJob ==
    [][(UnknownJobStep /\ result'.op = "tool_accept_job")
           => NotFoundNotRecorded]_vars

\* C18: an accept or a decline that names a job id which is not in the
\* catalog is reported as a not-found failure and is not recorded (the
\* candidate's accepted_job_id and declined_job_ids stay as they were), by
\* accept_job and decline_jobs at the tool boundary and in the store.
C18_UnknownJobNotRecorded ==
    [][UnknownJobStep => NotFoundNotRecorded]_vars

\* the neighbours of the last vector call that resolve in the catalog
ResolvedNeighbours ==
    SelectSeq(result.vector.neighbours, LAMBDA r : JobExists(r.id))

\* C19: search_jobs_by_text never falls back to the scoring engine: with no
\* vector index configured, or when the vector call throws, it returns an
\* error with an empty results list (a 'not available' error when
\* unconfigured); when the vector call succeeds it returns the resolved
\* neighbours with no error.
C19_TextSearchNeverFallsBack ==
    result.op = "search_jobs_by_text"
    => IF VectorSucceeded
       THEN /\ ~result.error
            /\ Len(result.matches) = Len(ResolvedNeighbours)
            /\ \A i \in 1..Len(result.matches) :
                   /\ result.matches[i].id = ResolvedNeighbours[i].id
                   /\ result.matches[i].match_score =
                          100 - ResolvedNeighbours[i].distance
            /\ result.total_found = Len(result.matches)
       ELSE /\ result.error
            /\ result.matches = <<>>
            /\ result.search_type # "fallback"
            /\ ~result.vector.called
                   => result.message = "Vector search not available"

\* the vector call was made and threw, with jobs in the catalog that a
\* fallback could have scored
C19_Witness ==
    /\ result.op = "search_jobs_by_text"
    /\ result.vector.called
    /\ result.vector.throws
    /\ result.error
    /\ Len(jobs) >= 2

\* the score of the claim, in halves: 2 x overlap + salary bonus (1.0 or
\* 0.5) + industry bonus (1.0 or 0.0) + title bonus (3.0, augmented path,
\* when a required title keyword matched)
StatedScore2(job) ==
    LET augmented == result.search_type = "fallback_augmented"
        min_salary == IF augmented THEN EffectiveOfCall("min_salary")
                      ELSE Caller.min_salary
        industries == IF augmented
                      THEN EffectiveOfCall("preferred_industries")
                      ELSE Caller.preferred_industries
    IN  4 * SkillOverlap(Caller, job)
        + (IF job.salary_min >= min_salary THEN 2 ELSE 1)
        + (IF InList(job.industry, industries) THEN 2 ELSE 0)
        + (IF augmented
              /\ EffectiveOfCall("preferred_titles") # <<>>
              /\ TitleMatch(EffectiveOfCall("preferred_titles"), job)
           THEN 6 ELSE 0)

StatedMatchScore(job) ==
    IF StatedScore2(job) * 5 < 100 THEN StatedScore2(job) * 5 ELSE 100

\* the plain fallback path scores as stated
C21_PlainFallbackScore ==
    (IsSearch /\ result.search_type = "fallback")
    => \A i \in 1..Len(result.matches) :
           result.matches[i].match_score = StatedMatchScore(MatchedJob(i))

\* C21: on both fallback paths the score of a surviving job is
\* 2 x |skills shared| + salary_bonus (1.0 if salary_min >= min_salary,
\* else 0.5) + industry_bonus (1.0 or 0.0) + title_bonus (3.0 only on the
\* augmented path when a required title keyword matched), and
\* match_score = min(score / 10, 1.0).
C21_FallbackScoreFormula ==
    FallbackPath
    => \A i \in 1..Len(result.matches) :
           result.matches[i].match_score = StatedMatchScore(MatchedJob(i))

\* the returned neighbours that resolve to a job and pass the post-filters
\* of the path: none on the plain path, location, salary and title with the
\* effective values on the augmented path
PassingNeighbours ==
    SelectSeq(result.vector.neighbours, LAMBDA r :
        /\ JobExists(r.id)
        /\ result.search_type = "vector_augmented" =>
               LET job == GetJob(r.id)
                   types == EffectiveOfCall("preferred_location_types")
                   titles == EffectiveOfCall("preferred_titles")
                   min_salary == EffectiveOfCall("min_salary")
               IN  /\ types # <<>> => InList(job.location_type, types)
                   /\ ~(min_salary > 0 /\ job.salary_max < min_salary)
                   /\ titles # <<>> => TitleMatch(titles, job))

\* the matches are the first num_results passing neighbours
WalkCollects ==
    /\ Len(result.matches) =
           IF result.num_results <= Len(PassingNeighbours)
           THEN result.num_results ELSE Len(PassingNeighbours)
    /\ \A i \in 1..Len(result.matches) :
           result.matches[i].id = PassingNeighbours[i].id

\* the augmented path does walk until num_results matches are collected
C22_AugmentedPathWalks ==
    (IsSearch /\ result.search_type = "vector_augmented"
     /\ result.num_results >= 0)
    => WalkCollects

\* C22: on both vector paths (for a count num_results >= 0) the walk over
\* the returned neighbours stops only when num_results matches are
\* collected or the neighbours are exhausted: the number of matches is
\* min(num_results, number of returned neighbours that resolve to a job and
\* pass the post-filters), so an id that does not resolve never reduces the
\* result while resolvable neighbours remain.
C22_WalkUntilEnoughMatches ==
    (IsSearch /\ result.search_type \in {"vector", "vector_augmented"}
     /\ result.num_results >= 0)
    => WalkCollects

\* C23 as stated: the number of neighbours requested is
\* num_results + |declined_job_ids| x k, with k = 1 on the plain and k = 5
\* on the augmented vector path.
C23_RequestedDeclinedTimesK ==
    /\ (IsSearch /\ result.search_type = "vector")
           => result.requested =
                  result.num_results + Len(Caller.declined_job_ids)
    /\ (IsSearch /\ result.search_type = "vector_augmented")
           => result.requested =
                  result.num_results + Len(Caller.declined_job_ids) * 5

\* C23, amended: the number of neighbours requested is
\* (num_results + |declined_job_ids|) x k, with k = 1 on the plain and
\* k = 5 on the augmented vector path.
C23_RequestedSumTimesK ==
    /\ (IsSearch /\ result.search_type = "vector")
           => result.requested =
                  result.num_results + Len(Caller.declined_job_ids)
    /\ (IsSearch /\ result.search_type = "vector_augmented")
           => result.requested =
                  (result.num_results + Len(Caller.declined_job_ids)) * 5

\* an augmented vector search for two results by a candidate who has
\* declined a job: 15 neighbours are requested, not 7
C23_Witness ==
    /\ result.op = "search_with_updated_preferences"
    /\ result.search_type = "vector_augmented"
    /\ result.num_results = 2
    /\ Len(Caller.declined_job_ids) = 1
    /\ result.requested = 15

----------------------------------------------------------------------------
(* Properties of the TTL cache *)

\* the gets whose counter is written and that have not returned yet
GetsReturning ==
    Cardinality({t \in Threads : th[t].op = "get" /\ th[t].pc = "release"})

RECURSIVE SumGets(_)
SumGets(T) ==
    IF T = {} THEN 0
    ELSE LET t == CHOOSE x \in T : TRUE
         IN  th[t].gets + SumGets(T \ {t})

\* C24: under any interleaving of concurrent get, set, delete, clear and
\* cleanup_expired calls, every get counts exactly one hit or one miss
\* (hits + misses is the number of gets that have counted), no call fails,
\* a get that finds its entry expired returns None with the entry evicted,
\* and no get returns a value whose expiry time had passed when get
\* tested it.
C24_CacheAtomicUnderConcurrency ==
    /\ tcache.hits + tcache.misses = SumGets(Threads) + GetsReturning
    /\ \A t \in Threads :
           /\ ~th[t].failed
           /\ (th[t].op = "get" /\ th[t].pc = "release") =>
                  /\ th[t].expired =>
                         /\ th[t].ret = <<>>
                         /\ th[t].key \notin DOMAIN tcache.entries
                  /\ th[t].ret # <<>> =>
                         th[t].checked_at <= th[t].entry[1].expires_at

\* two concurrent gets of the same expired key: one is about to evict the
\* entry, the other waits for the lock
C24_Witness ==
    /\ th["t1"].op = "get"
    /\ th["t1"].pc = "get_del"
    /\ th["t2"].op = "get"
    /\ th["t2"].pc = "acquire"
    /\ th["t2"].key = th["t1"].key

----------------------------------------------------------------------------
(* Properties of the cache overlay *)

\* a streaming chat request has just answered
ChatStep == result'.op = "chat_stream" /\ tcache' # tcache

\* C25: whenever a streaming chat request answers, the existence answer it
\* acts on equals the answer the Candidate Store gives at that moment.
C25_CachedAnswerEqualsStore ==
    [][ChatStep => (result'.ret = (result'.cid \in DOMAIN candidates'))]_vars

----------------------------------------------------------------------------
(* Properties of the background embedding service *)

\* generate_embedding raised or returned nothing for the task worker w holds
Failed(w) == emb.workers[w].embedding \in {"nothing", "raises"}

\* worker w writes the outcome of its task to _completed_tasks
RecordStep(w) ==
    emb.workers[w].pc = "record" /\ emb'.workers[w].pc = "unpend"

\* worker w has finished with a task whose embedding failed
FailedStep(w) ==
    /\ emb.workers[w].pc = "callback"
    /\ emb'.workers[w].pc # "callback"
    /\ Failed(w)

\* the task worker w holds
TaskOf(w) == emb.workers[w].task[1]

C28_NoExitBeforeStop ==
    \A w \in Workers : emb.workers[w].pc = "exited" => emb.stopped

\* stop() returns
C28_StopReturns == (emb.caller.pc = "join") ~> (emb.caller.pc = "idle")

\* C28: once stop() has been called, every worker that was running
\* eventually leaves its loop.
C28_StopLeadsToExit ==
    \A w \in Workers :
        (emb.workers[w].pc \notin {"unborn", "exited"} /\ ~emb.running)
            ~> (emb.workers[w].pc = "exited")

\* the caller is in no call, the queue is empty and no worker holds a task
WorkerIdle ==
    /\ emb.caller.pc = "idle"
    /\ queue = <<>>
    /\ \A w \in Workers : ~Busy(w)

\* no issued task id is ever reported unknown
C29_NeverUnknown ==
    \A i \in 1..Len(emb.issued) :
        GetTaskStatus(emb.issued[i].task_id) # "unknown"

\* C29: for every task id returned by queue_embedding_update,
\* get_task_status reports pending until that very task has been processed
\* and completed afterwards; when the worker is idle the number of completed
\* entries equals the number of tasks enqueued and nothing is pending.
C29_TasksTrackedIndividually ==
    /\ \A i \in 1..Len(emb.issued) :
           GetTaskStatus(emb.issued[i].task_id) =
               IF emb.issued[i].n \in emb.done THEN "completed"
               ELSE "pending"
    /\ WorkerIdle =>
           /\ Cardinality(DOMAIN emb.completed_tasks) = Len(emb.issued)
           /\ DOMAIN emb.pending_tasks = {}

----------------------------------------------------------------------------
(* Properties of the Candidate Store under concurrent callers *)

\* every call has completed
Quiescent == \A t \in Threads : th[t].pc = "idle"

\* C26: once all concurrent update_preferences, decline_jobs and accept_job
\* calls have completed, the persisted collection equals the in-memory
\* state.
C26_QuiescentPersistedEqualsMemory == Quiescent => persisted = candidates

----------------------------------------------------------------------------
(* Properties of the agent tools' session state *)

\* an accept_job tool call has just returned an error
FailedToolAccept == result'.op = "tool_accept_job" /\ result'.error

\* C30: an accept_job tool call that fails because the candidate or the job
\* does not exist leaves workflow_complete and accepted_job_id of the
\* session state unchanged.
C30_FailedAcceptLeavesSessionState ==
    [][FailedToolAccept =>
           /\ state'.workflow_complete = state.workflow_complete
           /\ state'.accepted_job_id = state.accepted_job_id]_vars

====
